---- MODULE Spec2Model ----
(***************************************************************************)
(* A model of the SaucerMapViewer decoders and scene loading:              *)
(*   loadWadFile   (wad_file.cpp)        the world archive decoder         *)
(*   loadMapfile   (map_file.cpp)        the map decoder                   *)
(*   MapViewerApp::loadMap (map_viewer_app.cpp)  the load of a scene       *)
(*   MapRenderer::MapRenderer (map_renderer.cpp) atlas and mesh building   *)
(*                                                                         *)
(* Files are concrete byte strings.  TLC's integers are 32 bit wide and    *)
(* signed, so a uint32_t is kept as its two 16 bit halves [hi, lo]; the    *)
(* arithmetic the decoders do on such words is done modulo 2^32.           *)
(***************************************************************************)
EXTENDS Integers, Sequences, FiniteSets, TLC

VARIABLES
  wadFile,        \* the bytes of the .wad file, or NoFile
  mapFile,        \* the bytes of the .map file, or NoFile
  f,              \* the std::ifstream of the decoder that is running
  pc,             \* the place the program is at
  loc,            \* the locals of the decoder that is running
  wad,            \* the WadData being built by loadWadFile
  map,            \* the MapData being built by loadMapfile
  oWad,           \* std::optional<WadData> returned by loadWadFile
  oMap,           \* std::optional<MapData> returned by loadMapfile
  caller,         \* who called the decoder: "loadMap" or "none"
  app             \* MapViewerApp: mpMapRenderer and what loadMap returned

vars == <<wadFile, mapFile, f, pc, loc, wad, map, oWad, oMap, caller, app>>

----------------------------------------------------------------------------
(* Numbers.                                                                *)

Min(a, b) == IF a < b THEN a ELSE b
Max(a, b) == IF a < b THEN b ELSE a

\* uint32_t as two 16 bit halves.
W(hi, lo) == [hi |-> hi, lo |-> lo]
WordOfNat(n) == W(n \div 65536, n % 65536)

\* Every stream position past PosCap behaves like PosCap: all files of the
\* model are shorter, and the decoders only ever seek forwards.
PosCap == 1073741824

\* The value of a word as a natural number, saturated at PosCap.
Amount(w) == IF w.hi >= 16384 THEN PosCap ELSE w.hi * 65536 + w.lo

\* a + b of two saturated amounts.
AddSat(a, b) == IF b >= PosCap - a THEN PosCap ELSE a + b

\* uint32_t multiplication by a small constant, modulo 2^32.
MulU32(w, k) ==
  LET l == w.lo * k
  IN  W((w.hi * k + l \div 65536) % 65536, l % 65536)

\* uint32_t addition and subtraction, modulo 2^32.
AddU32(a, b) ==
  LET l == a.lo + b.lo
  IN  W((a.hi + b.hi + l \div 65536) % 65536, l % 65536)

SubU32(a, b) ==
  LET borrow == IF a.lo < b.lo THEN 1 ELSE 0
  IN  W((a.hi - b.hi - borrow + 65536) % 65536, (a.lo - b.lo + 65536) % 65536)

\* Unsigned comparison of a small natural number with a word.
NatLtU32(n, w) == IF w.hi >= 16384 THEN TRUE ELSE n < w.hi * 65536 + w.lo

RECURSIVE BitAnd(_, _)
BitAnd(a, b) ==
  IF a = 0 \/ b = 0 THEN 0
  ELSE (a % 2) * (b % 2) + 2 * BitAnd(a \div 2, b \div 2)

\* Little endian decoding.
U16OfBytes(b) == b[1] + 256 * b[2]
S16OfBytes(b) == LET u == U16OfBytes(b) IN IF u >= 32768 THEN u - 65536 ELSE u
S8OfByte(b) == IF b >= 128 THEN b - 256 ELSE b
U32OfBytes(b) == W(b[3] + 256 * b[4], b[1] + 256 * b[2])

\* Little endian encoding (used to write the input files of the model).
B16(v) == <<v % 256, v \div 256>>
B32(w) == B16(w.lo) \o B16(w.hi)
BN(n) == B32(WordOfNat(n))
Zeros(n) == [k \in 1..n |-> 0]

----------------------------------------------------------------------------
(* Files: a byte string, written as a sequence of runs; a run is `unit`    *)
(* repeated `rep` times.                                                   *)

\* A file that cannot be opened: told apart from every file by its repeat count.
NoFile == <<[unit |-> <<>>, rep |-> -1]>>

Run(unit, rep) == [unit |-> unit, rep |-> rep]
RunLen(r) == Len(r.unit) * r.rep

RECURSIVE FileLen(_)
FileLen(F) == IF F = <<>> THEN 0 ELSE RunLen(Head(F)) + FileLen(Tail(F))

\* The byte at offset i (from 0); i < FileLen(F).
RECURSIVE ByteAt(_, _)
ByteAt(F, i) ==
  LET r == Head(F)
  IN  IF i < RunLen(r) THEN r.unit[(i % Len(r.unit)) + 1]
      ELSE ByteAt(Tail(F), i - RunLen(r))

\* The first n bytes of a file.
RECURSIVE Truncate(_, _)
Truncate(F, n) ==
  IF F = <<>> \/ n = 0 THEN <<>>
  ELSE LET r == Head(F)
       IN  IF RunLen(r) <= n THEN <<r>> \o Truncate(Tail(F), n - RunLen(r))
           ELSE LET whole == n \div Len(r.unit)
                    rest  == n % Len(r.unit)
                IN  (IF whole > 0 THEN <<Run(r.unit, whole)>> ELSE <<>>)
                    \o (IF rest > 0 THEN <<Run(SubSeq(r.unit, 1, rest), 1)>> ELSE <<>>)

----------------------------------------------------------------------------
(* The byte reader: std::ifstream with rigel::base::read, readArray and    *)
(* skipBytes on it.  No decoder enables exceptions on its stream or tests  *)
(* its state after a read, so a read at the end of the file sets eofbit    *)
(* and failbit and leaves the rest of its destination as it was.           *)

Stream(pos) == [pos |-> pos, eof |-> FALSE, fail |-> FALSE]
Good(s) == ~s.eof /\ ~s.fail

\* The number of bytes a read of n bytes extracts.
Extracted(F, s, n) ==
  IF ~Good(s) THEN 0 ELSE Min(n, Max(0, FileLen(F) - s.pos))

\* The stream after a read of n bytes.
AfterRead(F, s, n) ==
  IF ~Good(s) THEN [s EXCEPT !.fail = TRUE]
  ELSE IF s.pos + n <= FileLen(F) THEN [s EXCEPT !.pos = s.pos + n]
  ELSE [pos |-> Max(s.pos, FileLen(F)), eof |-> TRUE, fail |-> TRUE]

\* The n bytes a read leaves in its destination, which held `old` before.
BytesRead(F, s, n, old) ==
  [k \in 1..n |->
     IF k <= Extracted(F, s, n) THEN ByteAt(F, s.pos + k - 1) ELSE old[k]]

\* A read that extracted all of its n bytes.
Complete(F, s, n) == Extracted(F, s, n) = n

\* skipBytes(f, n): a relative seek.  It clears eofbit, and moves only when
\* failbit is not set; seeking past the end of the file is no error.
skipBytes(s, n) ==
  IF s.fail THEN [s EXCEPT !.eof = FALSE]
  ELSE [s EXCEPT !.eof = FALSE, !.pos = AddSat(s.pos, n)]

\* What an uninitialized uint32_t may hold: a sample of the 2^32 values
\* (0, 40, 0x01000000, 0xFFFFFFFF and the bytes "SUCK").
GarbageWords == {W(0, 0), W(0, 40), W(256, 0), W(65535, 65535), W(19267, 21843)}

\* n bytes of uninitialized memory that holds the word g over and over.
GarbageBytes(g, n) == [k \in 1..n |-> B32(g)[((k - 1) % 4) + 1]]

\* A record layout is a sequence of reads and skips.
\*   Rd(n): read<T>() or readArray() into uninitialized memory
\*   Rz(n): a read into zero-filled memory
\*   Sk(n): skipBytes(f, n)
Rd(n) == [op |-> "read", n |-> n]
Rz(n) == [op |-> "readz", n |-> n]
Sk(n) == [op |-> "skip", n |-> n]

\* Runs a layout on the stream: the stream afterwards, whether every read
\* extracted all its bytes, and the bytes the reads left in their
\* destinations, one after the other.
RECURSIVE RunOps(_, _, _, _)
RunOps(F, s, ops, g) ==
  IF ops = <<>> THEN [s |-> s, ok |-> TRUE, bytes |-> <<>>]
  ELSE LET o == Head(ops)
       IN  IF o.op = "skip" THEN RunOps(F, skipBytes(s, o.n), Tail(ops), g)
           ELSE LET r   == RunOps(F, AfterRead(F, s, o.n), Tail(ops), g)
                    old == IF o.op = "readz" THEN Zeros(o.n) ELSE GarbageBytes(g, o.n)
                IN  [s     |-> r.s,
                     ok    |-> Complete(F, s, o.n) /\ r.ok,
                     bytes |-> BytesRead(F, s, o.n, old) \o r.bytes]

\* A count-prefixed table: n records of one layout.  The records that were
\* read completely are `recs`; once a read has failed every further record
\* is the same, `fill`.
RECURSIVE ReadRecords(_, _, _, _, _)
ReadRecords(F, s, n, ops, g) ==
  IF n = 0 THEN [s |-> s, recs |-> <<>>, fill |-> <<>>]
  ELSE LET r == RunOps(F, s, ops, g)
       IN  IF r.ok
           THEN LET t == ReadRecords(F, r.s, n - 1, ops, g)
                IN  [s |-> t.s, recs |-> <<r.bytes>> \o t.recs, fill |-> t.fill]
           ELSE LET again == RunOps(F, r.s, ops, g)
                IN  [s    |-> IF n > 1 THEN again.s ELSE r.s,
                     recs |-> <<r.bytes>>,
                     fill |-> again.bytes]

\* A std::vector whose first elements are `elems` and whose other elements,
\* up to `size`, all equal `fill`.
Vec(elems, size, fill) == [elems |-> elems, size |-> size, fill |-> fill]
EmptyVec == Vec(<<>>, 0, <<>>)
VecAt(v, i) == IF i < Len(v.elems) THEN v.elems[i + 1] ELSE v.fill

\* An allocation of this many elements may end in std::bad_alloc.
AllocMayFail(w) == w.hi >= 16384

Slice(b, from, n) == SubSeq(b, from + 1, from + n)

----------------------------------------------------------------------------
(* Shared records (saucer_files_common, map_file.hpp, wad_file.hpp).       *)

\* std::string read from a 16 byte field: the bytes before the first 0 of
\* the first 15.
RECURSIVE CString(_)
CString(b) ==
  IF b = <<>> \/ Head(b) = 0 THEN <<>> ELSE <<Head(b)>> \o CString(Tail(b))

readString(b) == CString(SubSeq(b, 1, Len(b) - 1))

\* The layout of a TextureDef record and its decoding.
TextureDefOps_TwoHalfwords ==
  <<Rd(1), Rd(1), Rd(2), Rd(1), Rd(1), Sk(2), Rd(1), Rd(1), Sk(4),
    Rd(1), Rd(1), Rd(2)>>
TextureDefOps ==
  <<Rd(1), Rd(1), Rd(2), Rd(1), Rd(1), Sk(2), Rd(1), Rd(1), Sk(2),
    Rd(1), Rd(1), Rd(2)>>

readTextureDef(b) ==
  [uvs         |-> <<[u |-> b[1], v |-> b[2]], [u |-> b[5], v |-> b[6]],
                     [u |-> b[7], v |-> b[8]], [u |-> b[9], v |-> b[10]]>>,
   bitmapIndex |-> U16OfBytes(Slice(b, 2, 2)),
   isMasked    |-> U16OfBytes(Slice(b, 10, 2)) % 2 = 1]

\* The layout of a BlockDef record and its decoding.
BlockDefOps ==
  <<Rd(2), Rd(2), Rd(2), Rd(2), Rd(2), Rd(2),
    Rd(2), Rd(2), Rd(2), Rd(2), Rd(2), Rd(2), Rz(16), Sk(20)>>

readBlockDef(b) ==
  [texturesInside  |->
     [front |-> U16OfBytes(Slice(b, 0, 2)), top    |-> U16OfBytes(Slice(b, 2, 2)),
      left  |-> U16OfBytes(Slice(b, 4, 2)), back   |-> U16OfBytes(Slice(b, 6, 2)),
      right |-> U16OfBytes(Slice(b, 8, 2)), bottom |-> U16OfBytes(Slice(b, 10, 2))],
   texturesOutside |->
     [back  |-> U16OfBytes(Slice(b, 12, 2)), top    |-> U16OfBytes(Slice(b, 14, 2)),
      left  |-> U16OfBytes(Slice(b, 16, 2)), front  |-> U16OfBytes(Slice(b, 18, 2)),
      right |-> U16OfBytes(Slice(b, 20, 2)), bottom |-> U16OfBytes(Slice(b, 22, 2))],
   vertexCoordinatesY |-> [k \in 1..8 |-> S16OfBytes(Slice(b, 24 + 2 * (k - 1), 2))]]

MAP_SIZE == 64

Flags_rotation(raw) == BitAnd(raw, 48) \div 16

None == [none |-> TRUE]
Some(v) == [value |-> v]

NoLocals == [none |-> TRUE]

EmptyMap ==
  [mTextureDefs |-> EmptyVec,
   mBlockDefs   |-> EmptyVec,
   mpTerrain    |-> <<>>,
   mItems       |-> <<>>]

EmptyWad ==
  [mBackgroundColor |-> 0,
   mBitmaps         |-> EmptyVec,
   mTextureDefs     |-> EmptyVec,
   mTexturePages    |-> <<>>,
   mModels          |-> <<>>,
   mPackedData      |-> [start |-> 0, avail |-> 0, size |-> 0]]

\* A value-initialized TerrainTile (std::make_unique<TerrainGrid>()).
ZeroTile == [blockDefIndex |-> W(0, 0), flags |-> 0, verticalOffset |-> 0]

\* The terrain grid keeps the cells that were written; the others are zero.
TerrainCell(m, i) == IF i \in DOMAIN m.mpTerrain THEN m.mpTerrain[i] ELSE ZeroTile

\* MapData::terrainAt(x, y): (*mpTerrain)[x + y * MAP_SIZE]
terrainAt_Transposed(m, x, y) == TerrainCell(m, x * MAP_SIZE + y)
terrainAt(m, x, y) == TerrainCell(m, x + y * MAP_SIZE)

----------------------------------------------------------------------------
(* loadMapfile (map_file.cpp).                                             *)

\* Returning from a decoder: to loadMap when it called, else to the end.
AfterMap == IF caller = "loadMap" THEN "loadMap_afterMap" ELSE "returned"

\* return {} / return map, at the place `exit` of loadMapfile.
MapReturns(result, exit) ==
  /\ oMap' = result
  /\ pc' = AfterMap
  /\ loc' = [loc EXCEPT !.exit = exit]

\* An exception leaves loadMapfile.
MapThrows(what) ==
  /\ oMap' = oMap
  /\ pc' = "threw"
  /\ loc' = [loc EXCEPT !.exit = what]

MapLocals ==
  [numTextureDefs       |-> W(0, 0),
   numBlockDefs         |-> W(0, 0),
   numUnknown           |-> W(0, 0),
   numMapItems          |-> W(0, 0),
   numTextureAnimations |-> W(0, 0),
   modelNameTable       |-> <<>>,
   i                    |-> 0,
   numTerrainTilesRead  |-> 0,
   types                |-> <<>>,     \* history: the `type` of every record
   looped               |-> FALSE,    \* history: a list went round on a failed stream
   exit                 |-> "running"]

\* std::ifstream f(path); if (!f.is_open() || !f.good()) return {};
mapOpen ==
  /\ pc = "map_open"
  /\ IF mapFile = NoFile
     THEN /\ oMap' = None
          /\ pc' = AfterMap
          /\ loc' = [MapLocals EXCEPT !.exit = "open"]
          /\ UNCHANGED <<f, map>>
     ELSE /\ f' = Stream(0)
          /\ map' = EmptyMap
          /\ loc' = MapLocals
          /\ pc' = "map_signature"
          /\ UNCHANGED oMap
  /\ UNCHANGED <<wadFile, mapFile, wad, oWad, caller, app>>

\* std::string_view(signature, 4) != "SUCK"
SignatureMismatch_Never(sig) == FALSE
SignatureMismatch(sig) == sig # <<83, 85, 67, 75>>

\* version != 40
VersionMismatch_Off(version) == version # W(0, 41)
VersionMismatch(version) == version # W(0, 40)

mapSignature ==
  /\ pc = "map_signature"
  /\ \E g \in GarbageWords :
       LET r == RunOps(mapFile, f, <<Rd(4)>>, g)
       IN  /\ f' = r.s
           /\ IF SignatureMismatch(r.bytes)
              THEN MapReturns(None, "signature")
              ELSE /\ pc' = "map_version"
                   /\ UNCHANGED <<oMap, loc>>
  /\ UNCHANGED <<wadFile, mapFile, wad, map, oWad, caller, app>>

mapVersion ==
  /\ pc = "map_version"
  /\ \E g \in GarbageWords :
       LET r == RunOps(mapFile, f, <<Rd(4)>>, g)
       IN  /\ f' = r.s
           /\ IF VersionMismatch(U32OfBytes(r.bytes))
              THEN MapReturns(None, "version")
              ELSE /\ pc' = "map_header"
                   /\ UNCHANGED <<oMap, loc>>
  /\ UNCHANGED <<wadFile, mapFile, wad, map, oWad, caller, app>>

\* The five counts, then skipBytes(f, 4 + 2 * 2).
mapHeader ==
  /\ pc = "map_header"
  /\ \E g \in GarbageWords :
       LET r == RunOps(mapFile, f, <<Rd(4), Rd(4), Rd(4), Rd(4), Rd(4), Sk(8)>>, g)
       IN  /\ f' = r.s
           /\ loc' = [loc EXCEPT
                 !.numTextureDefs       = U32OfBytes(Slice(r.bytes, 0, 4)),
                 !.numBlockDefs         = U32OfBytes(Slice(r.bytes, 4, 4)),
                 !.numUnknown           = U32OfBytes(Slice(r.bytes, 8, 4)),
                 !.numMapItems          = U32OfBytes(Slice(r.bytes, 12, 4)),
                 !.numTextureAnimations = U32OfBytes(Slice(r.bytes, 16, 4))]
  /\ pc' = "map_texturePages"
  /\ UNCHANGED <<wadFile, mapFile, wad, map, oWad, oMap, caller, app>>

\* One round of a sentinel-terminated list whose entries are skipped:
\*   index = read<int32_t>(f); if (index == -1) break; skipBytes(f, stride);
SkippedListRound(stride, next) ==
  \E g \in GarbageWords :
    LET r     == RunOps(mapFile, f, <<Rd(4)>>, g)
        index == U32OfBytes(r.bytes)
    IN  IF index = W(65535, 65535)
        THEN /\ f' = r.s
             /\ pc' = next
             /\ loc' = loc
        ELSE /\ f' = skipBytes(r.s, stride)
             /\ pc' = pc
             /\ loc' = [loc EXCEPT !.looped = @ \/ r.s.fail]

\* The imported texture page name list: 14 bytes an entry, skipped.
mapTexturePages ==
  /\ pc = "map_texturePages"
  /\ SkippedListRound(14, "map_blockDefs")
  /\ UNCHANGED <<wadFile, mapFile, wad, map, oWad, oMap, caller, app>>

\* map.mBlockDefs.resize(numBlockDefs), then one record for each.
mapBlockDefs ==
  /\ pc = "map_blockDefs"
  /\ \/ /\ AllocMayFail(loc.numBlockDefs)
        /\ MapThrows("bad_alloc")
        /\ UNCHANGED <<f, map>>
     \/ \E g \in GarbageWords :
          LET t == ReadRecords(mapFile, f, Amount(loc.numBlockDefs), BlockDefOps, g)
          IN  /\ f' = t.s
              /\ map' = [map EXCEPT !.mBlockDefs =
                           Vec([k \in 1..Len(t.recs) |-> readBlockDef(t.recs[k])],
                               Amount(loc.numBlockDefs),
                               IF t.fill = <<>> THEN <<>> ELSE readBlockDef(t.fill))]
              /\ pc' = "map_textureDefs"
              /\ UNCHANGED <<oMap, loc>>
  /\ UNCHANGED <<wadFile, mapFile, wad, oWad, caller, app>>

\* map.mTextureDefs.reserve(numTextureDefs), then push_back(readTextureDef(f))
\* for each.
mapTextureDefs ==
  /\ pc = "map_textureDefs"
  /\ \/ /\ AllocMayFail(loc.numTextureDefs)
        /\ MapThrows("bad_alloc")
        /\ UNCHANGED <<f, map>>
     \/ \E g \in GarbageWords :
          LET t == ReadRecords(mapFile, f, Amount(loc.numTextureDefs), TextureDefOps, g)
          IN  /\ f' = t.s
              /\ map' = [map EXCEPT !.mTextureDefs =
                           Vec([k \in 1..Len(t.recs) |-> readTextureDef(t.recs[k])],
                               Amount(loc.numTextureDefs),
                               IF t.fill = <<>> THEN <<>> ELSE readTextureDef(t.fill))]
              /\ pc' = "map_skipAnimations"
              /\ UNCHANGED <<oMap, loc>>
  /\ UNCHANGED <<wadFile, mapFile, wad, oWad, caller, app>>

\* skipBytes(f, 40 * numTextureAnimations): the product is a uint32_t.
mapSkipAnimations ==
  /\ pc = "map_skipAnimations"
  /\ f' = skipBytes(f, Amount(MulU32(loc.numTextureAnimations, 40)))
  /\ pc' = "map_strats"
  /\ UNCHANGED <<wadFile, mapFile, wad, map, oWad, oMap, caller, app, loc>>

\* The Strat name list: 16 bytes an entry, skipped.
mapStrats ==
  /\ pc = "map_strats"
  /\ SkippedListRound(16, "map_modelNamesInit")
  /\ UNCHANGED <<wadFile, mapFile, wad, map, oWad, oMap, caller, app>>

\* modelNameTable.assign(wad.mModels.size(), "")
mapModelNamesInit ==
  /\ pc = "map_modelNamesInit"
  /\ loc' = [loc EXCEPT !.modelNameTable =
               [k \in 1..Cardinality(DOMAIN wad.mModels) |-> <<>>]]
  /\ pc' = "map_modelNames"
  /\ UNCHANGED <<wadFile, mapFile, wad, map, oWad, oMap, caller, app, f>>

\* The list ends at -1 or at the end of the file.
ModelNamesEnd_NoEof(index, s) == index = W(65535, 65535)
ModelNamesEnd(index, s) == index = W(65535, 65535) \/ s.eof

\* index < modelNameTable.size(): the int32_t index is compared as a size_t.
IndexInTable(index, table) ==
  IF index.hi >= 16384 THEN FALSE ELSE index.hi * 65536 + index.lo < Len(table)

\* One round of the model name list.
mapModelNames ==
  /\ pc = "map_modelNames"
  /\ \E g \in GarbageWords :
       LET r     == RunOps(mapFile, f, <<Rd(4)>>, g)
           index == U32OfBytes(r.bytes)
           n     == RunOps(mapFile, r.s, <<Rz(16)>>, g)
           name  == readString(n.bytes)
       IN  IF ModelNamesEnd(index, r.s)
           THEN /\ f' = r.s
                /\ pc' = "map_skipUnknown"
                /\ loc' = loc
           ELSE /\ f' = n.s
                /\ pc' = pc
                /\ loc' = [loc EXCEPT
                      !.looped = @ \/ r.s.fail,
                      !.modelNameTable =
                         IF IndexInTable(index, @)
                         THEN [@ EXCEPT ![Amount(index) + 1] = name]
                         ELSE @]
  /\ UNCHANGED <<wadFile, mapFile, wad, map, oWad, oMap, caller, app>>

\* skipBytes(f, 8 * numUnknown)
mapSkipUnknown ==
  /\ pc = "map_skipUnknown"
  /\ f' = skipBytes(f, Amount(MulU32(loc.numUnknown, 8)))
  /\ pc' = "map_reserveItems"
  /\ UNCHANGED <<wadFile, mapFile, wad, map, oWad, oMap, caller, app, loc>>

\* map.mItems.reserve(numMapItems - MAP_SIZE * MAP_SIZE): the difference is a
\* uint32_t, and wraps when the map has fewer than 4096 items.
mapReserveItems ==
  /\ pc = "map_reserveItems"
  /\ \/ /\ AllocMayFail(SubU32(loc.numMapItems, WordOfNat(MAP_SIZE * MAP_SIZE)))
        /\ MapThrows("bad_alloc")
     \/ /\ pc' = "map_items"
        /\ UNCHANGED <<oMap, loc>>
  /\ UNCHANGED <<wadFile, mapFile, wad, map, oWad, caller, app, f>>

----------------------------------------------------------------------------
(* The item loop of loadMapfile: one action for each arm of the switch.    *)

\* A bound of the model: the item loop is followed for this many rounds.
IterCap == 4

\* x, y and typeFlags of the record at the stream's position.
ItemHeaderOps == <<Rd(4), Rd(4), Rd(4)>>

\* (typeFlags & 0x1BFC0000) >> 16
AndU32(a, b) == W(BitAnd(a.hi, b.hi), BitAnd(a.lo, b.lo))
Shr16(w) == w.hi
ItemType_Unmasked(typeFlags) == Shr16(typeFlags)
ItemType(typeFlags) == Shr16(AndU32(typeFlags, W(7164, 0)))

ItemHeader(g) ==
  LET h == RunOps(mapFile, f, ItemHeaderOps, g)
  IN  [s         |-> h.s,
       ok        |-> h.ok,
       x         |-> U32OfBytes(Slice(h.bytes, 0, 4)).lo,
       y         |-> U32OfBytes(Slice(h.bytes, 4, 4)).lo,
       typeFlags |-> U32OfBytes(Slice(h.bytes, 8, 4)),
       type      |-> ItemType(U32OfBytes(Slice(h.bytes, 8, 4)))]

\* for (auto i = 0u; i < numMapItems; ++i)
InItemLoop ==
  /\ pc = "map_items"
  /\ NatLtU32(loc.i, loc.numMapItems)
  /\ loc.i < IterCap

NextItem(h) ==
  [loc EXCEPT !.i = @ + 1, !.types = Append(@, h.type)]

TerrainOps == <<Sk(4), Rd(4), Rd(1), Sk(5), Rd(2), Sk(4)>>
ExtraTerrainOps == <<Sk(4), Rd(4), Rd(1), Sk(5), Rd(8), Sk(2)>>
BlockOps == <<Sk(4), Rd(4), Rd(1), Sk(5), Rd(2), Rd(8)>>
ModelOps == <<Rd(1), Rd(1), Rd(2), Rd(2), Rd(2), Rd(2), Rd(4), Rd(2)>>

\* case 0x4: the next cell of the terrain grid,
\*   (*map.mpTerrain)[numTerrainTilesRead] = tile; ++numTerrainTilesRead;
\* A write after the last cell of the grid lands outside of it: the process
\* may die of it, or go on with the grid as it is.
TerrainTileIndex_ByPosition(h) == h.x + h.y * MAP_SIZE
TerrainTileIndex(h) == loc.numTerrainTilesRead

mapItemTerrain ==
  /\ InItemLoop
  /\ \E g \in GarbageWords :
       LET h == ItemHeader(g)
           b == RunOps(mapFile, h.s, TerrainOps, g)
           tile == [blockDefIndex  |-> U32OfBytes(Slice(b.bytes, 0, 4)),
                    flags          |-> b.bytes[5],
                    verticalOffset |-> S16OfBytes(Slice(b.bytes, 5, 2))]
       IN  /\ h.type = 4
           /\ f' = b.s
           /\ loc' = [NextItem(h) EXCEPT !.numTerrainTilesRead = @ + 1]
           /\ IF loc.numTerrainTilesRead < MAP_SIZE * MAP_SIZE
              THEN /\ map' = [map EXCEPT !.mpTerrain =
                                (TerrainTileIndex(h) :> tile) @@ @]
                   /\ pc' = pc
              ELSE /\ map' = map
                   /\ pc' \in {pc, "crashed"}
  /\ UNCHANGED <<wadFile, mapFile, wad, oWad, oMap, caller, app>>

\* case 0x8: an ExtraTerrainTile.
mapItemExtraTerrain ==
  /\ InItemLoop
  /\ \E g \in GarbageWords :
       LET h == ItemHeader(g)
           b == RunOps(mapFile, h.s, ExtraTerrainOps, g)
           tile == [kind |-> "ExtraTerrainTile", x |-> h.x, y |-> h.y,
                    blockDefIndex |-> U32OfBytes(Slice(b.bytes, 0, 4)),
                    flags         |-> b.bytes[5],
                    vertexCoordinatesY |->
                      [k \in 1..4 |-> S16OfBytes(Slice(b.bytes, 5 + 2 * (k - 1), 2))]]
       IN  /\ h.type = 8
           /\ f' = b.s
           /\ map' = [map EXCEPT !.mItems = Append(@, tile)]
           /\ loc' = NextItem(h)
  /\ UNCHANGED <<wadFile, mapFile, wad, oWad, oMap, caller, app, pc>>

\* The bytes skipped by the arms that decode nothing.
SkippedBytes(type) ==
  CASE type = 16   -> 12
    [] type = 32   -> 8
    [] type = 256  -> 8
    [] type = 512  -> 32
    [] type = 2048 -> 24

\* case 0x10, 0x20, 0x100, 0x200, 0x800: skipped.
mapItemSkipped ==
  /\ InItemLoop
  /\ \E g \in GarbageWords :
       LET h == ItemHeader(g)
       IN  /\ h.type \in {16, 32, 256, 512, 2048}
           /\ f' = skipBytes(h.s, SkippedBytes(h.type))
           /\ loc' = NextItem(h)
  /\ UNCHANGED <<wadFile, mapFile, wad, map, oWad, oMap, caller, app, pc>>

\* case 0x40: a BlockInstance.
mapItemBlock ==
  /\ InItemLoop
  /\ \E g \in GarbageWords :
       LET h == ItemHeader(g)
           b == RunOps(mapFile, h.s, BlockOps, g)
           block == [kind |-> "BlockInstance", x |-> h.x, y |-> h.y,
                     blockDefIndex  |-> U32OfBytes(Slice(b.bytes, 0, 4)),
                     flags          |-> b.bytes[5],
                     verticalOffset |-> S16OfBytes(Slice(b.bytes, 5, 2)),
                     vertexOffsetsY |-> [k \in 1..8 |-> S8OfByte(b.bytes[7 + k])]]
       IN  /\ h.type = 64
           /\ f' = b.s
           /\ map' = [map EXCEPT !.mItems = Append(@, block)]
           /\ loc' = NextItem(h)
  /\ UNCHANGED <<wadFile, mapFile, wad, oWad, oMap, caller, app, pc>>

\* if (wad.mModels.count(model.modelName)) map.mItems.push_back(model);
ModelKept_Always(name) == TRUE
ModelKept(name) == name \in DOMAIN wad.mModels

\* modelNameTable.at(index): std::out_of_range unless index < size().
AtInRange(index, table) ==
  IF index.hi >= 16384 THEN FALSE ELSE index.hi * 65536 + index.lo < Len(table)

\* The ModelInstance of the record at the stream's position.
ModelRecord(h, g) ==
  LET b == RunOps(mapFile, h.s, ModelOps, g)
      index == U32OfBytes(Slice(b.bytes, 10, 4))
  IN  [s     |-> b.s,
       ok    |-> h.ok /\ b.ok,
       index |-> index,
       sAtIndex |-> RunOps(mapFile, h.s, SubSeq(ModelOps, 1, 7), g).s,
       model |-> [kind |-> "ModelInstance", x |-> h.x, y |-> h.y,
                  xOffset        |-> b.bytes[1],
                  yOffset        |-> b.bytes[2],
                  verticalOffset |-> S16OfBytes(Slice(b.bytes, 2, 2)),
                  rotationX      |-> U16OfBytes(Slice(b.bytes, 4, 2)),
                  rotationY      |-> U16OfBytes(Slice(b.bytes, 6, 2)),
                  rotationZ      |-> U16OfBytes(Slice(b.bytes, 8, 2)),
                  modelName      |-> IF AtInRange(index, loc.modelNameTable)
                                     THEN loc.modelNameTable[Amount(index) + 1]
                                     ELSE <<>>,
                  scale          |-> U16OfBytes(Slice(b.bytes, 14, 2))]]

\* case 0x1000: a ModelInstance, kept when the archive has its model.
mapItemModel ==
  /\ InItemLoop
  /\ \E g \in GarbageWords :
       LET h == ItemHeader(g)
           m == ModelRecord(h, g)
       IN  /\ h.type = 4096
           /\ IF AtInRange(m.index, loc.modelNameTable)
              THEN /\ f' = m.s
                   /\ map' = [map EXCEPT !.mItems =
                                IF ModelKept(m.model.modelName)
                                THEN Append(@, m.model) ELSE @]
                   /\ loc' = NextItem(h)
                   /\ UNCHANGED <<pc, oMap>>
              ELSE /\ f' = m.sAtIndex
                   /\ map' = map
                   /\ oMap' = oMap
                   /\ pc' = "threw"
                   /\ loc' = [NextItem(h) EXCEPT !.exit = "out_of_range", !.i = loc.i]
  /\ UNCHANGED <<wadFile, mapFile, wad, oWad, caller, app>>

KnownTypes == {4, 8, 16, 32, 64, 256, 512, 2048, 4096}

\* default: return {};
UnknownItemResult_Partial(m) == Some(m)
UnknownItemResult(m) == None

mapItemUnknown ==
  /\ InItemLoop
  /\ \E g \in GarbageWords :
       LET h == ItemHeader(g)
       IN  /\ h.type \notin KnownTypes
           /\ f' = h.s
           /\ oMap' = UnknownItemResult(map)
           /\ pc' = AfterMap
           /\ loc' = [NextItem(h) EXCEPT !.exit = "unknownType", !.i = loc.i]
  /\ UNCHANGED <<wadFile, mapFile, wad, map, oWad, caller, app>>

\* return map;
mapReturn ==
  /\ pc = "map_items"
  /\ ~NatLtU32(loc.i, loc.numMapItems)
  /\ MapReturns(Some(map), "end")
  /\ UNCHANGED <<wadFile, mapFile, wad, map, oWad, caller, app, f>>

loadMapfile ==
  \/ mapOpen \/ mapSignature \/ mapVersion \/ mapHeader \/ mapTexturePages
  \/ mapBlockDefs \/ mapTextureDefs \/ mapSkipAnimations \/ mapStrats
  \/ mapModelNamesInit \/ mapModelNames \/ mapSkipUnknown \/ mapReserveItems
  \/ mapItemTerrain \/ mapItemExtraTerrain \/ mapItemSkipped \/ mapItemBlock
  \/ mapItemModel \/ mapItemUnknown \/ mapReturn

----------------------------------------------------------------------------
(* The map files the model decodes.                                        *)

Bytes(F) == <<Run(F, 1)>>
MinusOne == <<255, 255, 255, 255>>
SUCK == <<83, 85, 67, 75>>

\* Names are 16 byte fields.
NameA == <<65>>
NameB == <<66>>
NameC == <<67>>
Name16(name) == name \o Zeros(16 - Len(name))

MapHeaderBytes(sig, version, nTex, nBlock, nUnknown, nItems, nAnim) ==
  sig \o B32(version) \o BN(nTex) \o BN(nBlock) \o BN(nUnknown) \o BN(nItems)
      \o BN(nAnim) \o Zeros(8)

\* A block definition whose 12 textures are tex and whose heights are 0 and -256.
BlockDefBytes(tex) ==
  B16(tex) \o B16(tex) \o B16(tex) \o B16(tex) \o B16(tex) \o B16(tex)
  \o B16(tex) \o B16(tex) \o B16(tex) \o B16(tex) \o B16(tex) \o B16(tex)
  \o B16(0) \o B16(0) \o B16(0) \o B16(0)
  \o B16(65280) \o B16(65280) \o B16(65280) \o B16(65280) \o Zeros(20)

TextureDefBytes(page, flags) ==
  <<0, 0>> \o B16(page) \o <<63, 0>> \o <<0, 0>> \o <<63, 63>> \o <<0, 0>>
  \o <<0, 63>> \o B16(flags)

\* An item record: x, y, typeFlags, then the body of its type.
ItemBytes(x, y, typeFlags, body) == BN(x) \o BN(y) \o B32(typeFlags) \o body

TerrainBody(blockDefIndex) ==
  Zeros(4) \o BN(blockDefIndex) \o <<16>> \o Zeros(5) \o B16(256) \o Zeros(4)
ExtraTerrainBody(blockDefIndex) ==
  Zeros(4) \o BN(blockDefIndex) \o <<32>> \o Zeros(5)
  \o B16(0) \o B16(256) \o B16(512) \o B16(65280) \o Zeros(2)
BlockBody(blockDefIndex) ==
  Zeros(4) \o BN(blockDefIndex) \o <<48>> \o Zeros(5) \o B16(512)
  \o <<1, 2, 3, 4, 255, 254, 253, 252>>
ModelBody(index) ==
  <<7, 9>> \o B16(128) \o B16(16384) \o B16(32768) \o B16(49152) \o B32(index)
  \o B16(256)

\* The kinds of item record the input files are made of.  The type flags
\* carry bits outside the mask 0x1BFC0000 as well.
ItemKinds ==
  [T    |-> ItemBytes(0, 0, W(4, 0), TerrainBody(0)),
   T1   |-> ItemBytes(9, 9, W(1024 + 4, 4660), TerrainBody(1)),
   E    |-> ItemBytes(3, 4, W(8, 0), ExtraTerrainBody(0)),
   E7   |-> ItemBytes(64, 1, W(8 + 1, 0), ExtraTerrainBody(7)),
   S10  |-> ItemBytes(1, 1, W(16, 0), Zeros(12)),
   S20  |-> ItemBytes(1, 1, W(32, 0), Zeros(8)),
   S200 |-> ItemBytes(1, 1, W(512, 0), Zeros(32)),
   S800 |-> ItemBytes(1, 1, W(2048, 0), Zeros(24)),
   B    |-> ItemBytes(5, 6, W(64, 0), BlockBody(0)),
   BH   |-> B32(W(3, 5)) \o B32(W(65535, 6)) \o B32(W(64 + 41986, 770))
            \o BlockBody(1),
   M0   |-> ItemBytes(10, 11, W(4096, 0), ModelBody(W(0, 0))),
   M1   |-> ItemBytes(12, 13, W(4096 + 8192, 0), ModelBody(W(0, 1))),
   M2   |-> ItemBytes(14, 15, W(4096, 0), ModelBody(W(0, 2))),
   MX   |-> ItemBytes(14, 15, W(4096, 0), ModelBody(W(65535, 65535))),
   U80  |-> ItemBytes(1, 1, W(128, 0), Zeros(8)),
   U0   |-> ItemBytes(1, 1, W(0, 4), Zeros(8))]

\* The kinds the generated item lists draw from.
KindNames == DOMAIN ItemKinds \ {"S20"}

RECURSIVE ItemsBytes(_)
ItemsBytes(kinds) ==
  IF kinds = <<>> THEN <<>> ELSE ItemKinds[Head(kinds)] \o ItemsBytes(Tail(kinds))

\* The model name list of the input files: index 0 is "A", index 1 is "C",
\* and index 5 lies outside a table of two names.
ModelNameList ==
  BN(0) \o Name16(NameA) \o BN(1) \o Name16(NameC) \o BN(5) \o Name16(NameB)
  \o MinusOne

\* A map file with no tables and the given item records.
PlainMap(kinds) ==
  MapHeaderBytes(SUCK, W(0, 40), 0, 0, 0, Len(kinds), 0)
  \o MinusOne \o MinusOne \o ModelNameList \o ItemsBytes(kinds)

\* A map file with one entry in every table.
RichMap(kinds, nItems) ==
  MapHeaderBytes(SUCK, W(0, 40), 2, 2, 1, nItems, 1)
  \o BN(0) \o Zeros(14) \o MinusOne
  \o BlockDefBytes(0) \o BlockDefBytes(1)
  \o TextureDefBytes(0, 0) \o TextureDefBytes(1, 1)
  \o Zeros(40)
  \o BN(0) \o Zeros(16) \o MinusOne
  \o ModelNameList
  \o Zeros(8)
  \o ItemsBytes(kinds)

\* A bound of the model: the input files hold up to this many item records.
MaxItems == 2

KindSeqs == UNION {[1..n -> KindNames] : n \in 0..MaxItems}

\* Signatures and versions, right and wrong.
Signatures == {SUCK, <<83, 85, 67, 67>>, <<115, 85, 67, 75>>, <<0, 0, 0, 0>>}
Versions == {W(0, 40), W(0, 41), W(0, 0), W(1, 40), W(10240, 0)}

RichItems == <<"T", "S20", "M0">>

\* The lengths the rich map file is cut to: every length inside the signature
\* and the version, and every TruncStep-th length after them.
TruncStep == 9
TruncLens ==
  {n \in 0..Len(RichMap(RichItems, 3)) : n <= 8 \/ n % TruncStep = 0}

MapInputs ==
  {Bytes(PlainMap(k)) : k \in KindSeqs}
  \cup {Bytes(MapHeaderBytes(sig, v, 0, 0, 0, 1, 0) \o MinusOne \o MinusOne
              \o MinusOne \o ItemKinds["B"]) : sig \in Signatures, v \in Versions}
  \cup {Truncate(Bytes(RichMap(RichItems, 3)), n) : n \in TruncLens}
  \cup {NoFile}

\* The archive the map files are decoded against: models "A" and "B".
TestModels == (NameA :> [offsetData |-> W(0, 0), offsetParams |-> W(0, 80)])
           @@ (NameB :> [offsetData |-> W(0, 140), offsetParams |-> W(0, 220)])

TestWad == [EmptyWad EXCEPT !.mModels = TestModels]

\* The application before its first load.  `before` is history: the scene at
\* the time of the last call of loadMap.
NoApp == [mpMapRenderer |-> None, returned |-> None, loads |-> 0, before |-> None]

InitMap ==
  /\ wadFile = NoFile
  /\ mapFile \in MapInputs
  /\ f = Stream(0)
  /\ pc = "map_open"
  /\ loc = NoLocals
  /\ wad = TestWad
  /\ map = EmptyMap
  /\ oWad = Some(TestWad)
  /\ oMap = None
  /\ caller = "none"
  /\ app = NoApp

SpecMap == InitMap /\ [][loadMapfile]_vars

----------------------------------------------------------------------------
(* Properties of loadMapfile.                                              *)

\* The n bytes of a file from offset `from`; the file has them.
FileBytes(F, from, n) == [k \in 1..n |-> ByteAt(F, from + k - 1)]

HasBytes(F, n) == F # NoFile /\ FileLen(F) >= n

\* The map file's signature is there and is not "SUCK".
BadSignature == HasBytes(mapFile, 4) /\ FileBytes(mapFile, 0, 4) # SUCK

\* The map file's signature is right, and its version is there and is not 40.
BadVersion ==
  /\ HasBytes(mapFile, 8)
  /\ FileBytes(mapFile, 0, 4) = SUCK
  /\ U32OfBytes(FileBytes(mapFile, 4, 4)) # W(0, 40)

\* C1: a map file whose first 4 bytes are not "SUCK", or whose version word
\* after them is not 40, never yields a map, and the decoder stops at the
\* mismatch: it reads nothing after the version word, so the header counts
\* and the tables stay as they were before the decode.
C1_BadHeaderNoMap ==
  (BadSignature \/ BadVersion) =>
    /\ oMap = None
    /\ pc \in {"map_open", "map_signature", "map_version", "returned"}
    /\ f.pos <= 8
    /\ loc \in {NoLocals, MapLocals,
                [MapLocals EXCEPT !.exit = "signature"],
                [MapLocals EXCEPT !.exit = "version"]}
    /\ map = EmptyMap
    /\ (pc = "returned" /\ BadSignature => loc.exit = "signature" /\ f.pos = 4)
    /\ (pc = "returned" /\ BadVersion => loc.exit = "version" /\ f.pos = 8)

\* C1 witness: a file with the right signature and the version 0x00010028,
\* which differs from 40 in its high half only, has been turned down.
C1_Witness ==
  /\ pc = "returned"
  /\ BadVersion
  /\ U32OfBytes(FileBytes(mapFile, 4, 4)) = W(1, 40)
  /\ loc.exit = "version"
  /\ oMap = None

\* The type tags the item loop decodes or skips.
C2_Tags == {4, 8, 16, 32, 64, 256, 512, 2048, 4096}

HasOtherTag == \E k \in 1..Len(loc.types) : loc.types[k] \notin C2_Tags

\* C2: once a record of the item loop had a type tag outside 0x4, 0x8, 0x10,
\* 0x20, 0x40, 0x100, 0x200, 0x800, 0x1000 the decode has ended and has
\* returned nothing, whatever items were decoded before that record.
C2_UnknownTagFails ==
  (loc # NoLocals /\ HasOtherTag) =>
    /\ pc = "returned"
    /\ oMap = None
    /\ loc.exit = "unknownType"
    /\ loc.types[Len(loc.types)] \notin C2_Tags

\* C2 witness: the second record of a whole file had the tag 0x80 after a
\* block instance had been decoded, and nothing was returned.
C2_Witness ==
  /\ pc = "returned"
  /\ loc.types = <<64, 128>>
  /\ Len(map.mItems) = 1
  /\ Good(f)
  /\ oMap = None


\* The model record at the stream's position, when the file holds all of it.
ModelRecordAt == ModelRecord(ItemHeader(W(0, 0)), W(0, 0))

WholeModelRecordNext ==
  /\ InItemLoop
  /\ Good(f)
  /\ f.pos + 28 <= FileLen(mapFile)
  /\ ItemHeader(W(0, 0)).type = 4096

\* The next record is a model whose name the archive does not have.
UncataloguedModelNext ==
  /\ WholeModelRecordNext
  /\ AtInRange(ModelRecordAt.index, loc.modelNameTable)
  /\ ModelRecordAt.model.modelName \notin DOMAIN wad.mModels

\* C6: a step of the item loop over a tag-0x1000 record whose model name is
\* not in the archive's catalog leaves the map's items and terrain as they
\* are, stays in the loop, counts the record, and leaves the stream right
\* after the record's 28 bytes: the records after it decode as without it.
C6_UncataloguedModelDropped ==
  [][UncataloguedModelNext =>
       /\ map' = map
       /\ pc' = "map_items"
       /\ oMap' = oMap
       /\ loc'.i = loc.i + 1
       /\ f' = [f EXCEPT !.pos = f.pos + 28]]_vars

\* C6 witness: a decode has returned a map that holds the block instance of
\* the second record and nothing of the uncatalogued model of the first.
C6_Witness ==
  /\ pc = "returned"
  /\ loc.exit = "end"
  /\ loc.types = <<4096, 64>>
  /\ oMap = Some(map)
  /\ Len(map.mItems) = 1
  /\ map.mItems[1].kind = "BlockInstance"

\* C7: a tag-0x1000 record whose model name index lies outside the model
\* name table does not end the decode: no decode is left by the exception
\* of an out-of-range lookup.
C7_OutOfRangeIndexRecovered ==
  ~(pc = "threw" /\ loc.exit = "out_of_range")

\* C10: in a map file that holds its whole header, no sentinel-terminated
\* list goes round again once the read of its index has failed at the end
\* of the stream.
C10_ListsEndAtExhaustion ==
  (loc # NoLocals /\ HasBytes(mapFile, 36)) => ~loc.looped

----------------------------------------------------------------------------
(* loadWadFile (wad_file.cpp).                                             *)

\* Returning from the archive decoder: to loadMap when it called.
AfterWad == IF caller = "loadMap" THEN "loadMap_afterWad" ELSE "returned"

WadReturns(result, exit) ==
  /\ oWad' = result
  /\ pc' = AfterWad
  /\ loc' = [exit |-> exit]

WadThrows(what) ==
  /\ oWad' = oWad
  /\ pc' = "threw"
  /\ loc' = [exit |-> what]

\* A uint32_t times a size_t, as a stream offset.
MulSat(w, k) ==
  IF w.hi * k + (w.lo * k) \div 65536 >= 16384 THEN PosCap
  ELSE w.hi * k * 65536 + w.lo * k

\* skipRecords: skipBytes(f, read<uint32_t>(f) * itemSize)
skipRecords(F, s, itemSize, g) ==
  LET r == RunOps(F, s, <<Rd(4)>>, g)
  IN  skipBytes(r.s, MulSat(U32OfBytes(r.bytes), itemSize))

\* The two colour lookup tables in front of the header.
LookupTablesSize == 256 * 64 * 16 + 256 * 256 * 16

\* wadInfo >> 24 and wadInfo & 0xFFFFFF
WadVersion_LowByte(wadInfo) == wadInfo.lo % 256
WadVersion(wadInfo) == wadInfo.hi \div 256
PackedDataSize_Low16(wadInfo) == wadInfo.lo
PackedDataSize(wadInfo) == (wadInfo.hi % 256) * 65536 + wadInfo.lo

\* std::ifstream f(path, std::ios::binary); if (!f.is_open() || !f.good()) return {};
wadOpen ==
  /\ pc = "wad_open"
  /\ IF wadFile = NoFile
     THEN /\ WadReturns(None, "open")
          /\ UNCHANGED <<f, wad>>
     ELSE /\ f' = Stream(0)
          /\ wad' = EmptyWad
          /\ loc' = [exit |-> "running"]
          /\ pc' = "wad_header"
          /\ UNCHANGED oWad
  /\ UNCHANGED <<wadFile, mapFile, map, oMap, caller, app>>

\* The lookup tables are skipped; wadInfo, the version check, the background
\* colour, and the rest of the header.
wadHeader ==
  /\ pc = "wad_header"
  /\ \E g \in GarbageWords :
       LET i == RunOps(wadFile, skipBytes(f, LookupTablesSize), <<Rd(4)>>, g)
           wadInfo == U32OfBytes(i.bytes)
           b == RunOps(wadFile, i.s, <<Rd(4), Sk(8)>>, g)
       IN  IF WadVersion(wadInfo) # 1
           THEN /\ f' = i.s
                /\ WadReturns(None, "version")
                /\ wad' = wad
           ELSE /\ f' = b.s
                /\ wad' = [wad EXCEPT
                     !.mBackgroundColor = b.bytes[1],
                     !.mPackedData.size = PackedDataSize(wadInfo)]
                /\ pc' = "wad_skipLead"
                /\ UNCHANGED <<oWad, loc>>
  /\ UNCHANGED <<wadFile, mapFile, map, oMap, caller, app>>

\* The sum of the numEntries of the 7 LanguageHeaders, a uint32_t.
RECURSIVE TotalEntries(_, _)
TotalEntries(b, k) ==
  IF k = 0 THEN 0
  ELSE U16OfBytes(Slice(b, 12 * (k - 1) + 2, 2)) + TotalEntries(b, k - 1)

\* Two tables, the language data, two tables, a word and a table of words,
\* all skipped.
wadSkipLead ==
  /\ pc = "wad_skipLead"
  /\ \E g \in GarbageWords :
       LET s1 == skipRecords(wadFile, f, 1, g)
           s2 == skipRecords(wadFile, s1, 1, g)
           h  == RunOps(wadFile, s2, <<Rd(84)>>, g)
           s3 == skipBytes(h.s, TotalEntries(h.bytes, 7) * 2)
           s4 == skipRecords(wadFile, s3, 1, g)
           s5 == skipRecords(wadFile, s4, 1, g)
           s6 == skipRecords(wadFile, skipBytes(s5, 4), 4, g)
       IN  f' = s6
  /\ pc' = "wad_bitmaps"
  /\ UNCHANGED <<wadFile, mapFile, wad, map, oWad, oMap, caller, app, loc>>

BitmapOps == <<Rd(4), Sk(4), Rd(2), Rd(2)>>

readBitmapInfo(b) ==
  [offset |-> U32OfBytes(Slice(b, 0, 4)),
   width  |-> U16OfBytes(Slice(b, 4, 2)),
   height |-> U16OfBytes(Slice(b, 6, 2))]

\* numBitmaps, reserve, and a push_back for each record.
wadBitmaps ==
  /\ pc = "wad_bitmaps"
  /\ \E g \in GarbageWords :
       LET c == RunOps(wadFile, f, <<Rd(4)>>, g)
           n == U32OfBytes(c.bytes)
           t == ReadRecords(wadFile, c.s, Amount(n), BitmapOps, g)
       IN  \/ /\ AllocMayFail(n)
              /\ WadThrows("bad_alloc")
              /\ f' = c.s
              /\ wad' = wad
           \/ /\ f' = t.s
              /\ wad' = [wad EXCEPT !.mBitmaps =
                           Vec([k \in 1..Len(t.recs) |-> readBitmapInfo(t.recs[k])],
                               Amount(n),
                               IF t.fill = <<>> THEN <<>> ELSE readBitmapInfo(t.fill))]
              /\ pc' = "wad_texturePages"
              /\ UNCHANGED <<oWad, loc>>
  /\ UNCHANGED <<wadFile, mapFile, map, oMap, caller, app>>

\* m[key] = value for each record in turn, of a std::unordered_map.
RECURSIVE Assigned(_, _, _, _)
Assigned(m, keys, values, k) ==
  IF k > Len(keys) THEN m
  ELSE Assigned((keys[k] :> values[k]) @@ m, keys, values, k + 1)

ExportedTextureOps == <<Rd(4), Rz(16)>>

\* wad.mTexturePages[name] = index for each exported texture.
wadTexturePages ==
  /\ pc = "wad_texturePages"
  /\ \E g \in GarbageWords :
       LET c == RunOps(wadFile, f, <<Rd(4)>>, g)
           n == U32OfBytes(c.bytes)
           t == ReadRecords(wadFile, c.s, Amount(n), ExportedTextureOps, g)
           all == IF Len(t.recs) < Amount(n) THEN Append(t.recs, t.fill) ELSE t.recs
       IN  /\ f' = t.s
           /\ wad' = [wad EXCEPT !.mTexturePages =
                Assigned(<<>>,
                         [k \in 1..Len(all) |-> readString(Slice(all[k], 4, 16))],
                         [k \in 1..Len(all) |-> U32OfBytes(Slice(all[k], 0, 4))], 1)]
  /\ pc' = "wad_textureDefs"
  /\ UNCHANGED <<wadFile, mapFile, map, oWad, oMap, caller, app, loc>>

\* numTextureDefs, reserve, and push_back(readTextureDef(f)) for each.
wadTextureDefs ==
  /\ pc = "wad_textureDefs"
  /\ \E g \in GarbageWords :
       LET c == RunOps(wadFile, f, <<Rd(4)>>, g)
           n == U32OfBytes(c.bytes)
           t == ReadRecords(wadFile, c.s, Amount(n), TextureDefOps, g)
       IN  \/ /\ AllocMayFail(n)
              /\ WadThrows("bad_alloc")
              /\ f' = c.s
              /\ wad' = wad
           \/ /\ f' = t.s
              /\ wad' = [wad EXCEPT !.mTextureDefs =
                           Vec([k \in 1..Len(t.recs) |-> readTextureDef(t.recs[k])],
                               Amount(n),
                               IF t.fill = <<>> THEN <<>> ELSE readTextureDef(t.fill))]
              /\ pc' = "wad_models"
              /\ UNCHANGED <<oWad, loc>>
  /\ UNCHANGED <<wadFile, mapFile, map, oMap, caller, app>>


ModelInfoOps == <<Rd(4), Sk(8), Rd(4), Sk(20)>>

readModelInfo(b) ==
  [offsetData   |-> U32OfBytes(Slice(b, 0, 4)),
   offsetParams |-> U32OfBytes(Slice(b, 4, 4))]

\* A table of 28 byte records is skipped; then numModels names, and numModels
\* records: wad.mModels[modelNames[i]] = ModelInfo{offsetData, offsetParams}.
wadModels ==
  /\ pc = "wad_models"
  /\ \E g \in GarbageWords :
       LET c == RunOps(wadFile, skipRecords(wadFile, f, 28, g), <<Rd(4)>>, g)
           n == U32OfBytes(c.bytes)
           names == ReadRecords(wadFile, c.s, Amount(n), <<Rz(16)>>, g)
           infos == ReadRecords(wadFile, names.s, Amount(n), ModelInfoOps, g)
           count == Min(Amount(n), Max(Len(names.recs), Len(infos.recs)) + 1)
           nameOf(k) == readString(IF k <= Len(names.recs) THEN names.recs[k]
                                   ELSE names.fill)
           infoOf(k) == readModelInfo(IF k <= Len(infos.recs) THEN infos.recs[k]
                                      ELSE infos.fill)
       IN  \/ /\ AllocMayFail(n)
              /\ WadThrows("bad_alloc")
              /\ f' = c.s
              /\ wad' = wad
           \/ /\ f' = infos.s
              /\ wad' = [wad EXCEPT !.mModels =
                           Assigned(<<>>, [k \in 1..count |-> nameOf(k)],
                                    [k \in 1..count |-> infoOf(k)], 1)]
              /\ pc' = "wad_skipTail"
              /\ UNCHANGED <<oWad, loc>>
  /\ UNCHANGED <<wadFile, mapFile, map, oMap, caller, app>>

\* The sound table, the palette table, the named texture table and the debug
\* names are skipped.  numDebugNames * 16 and (numDebugNames - count) * 4 + 8
\* are uint32_t.
wadSkipTail ==
  /\ pc = "wad_skipTail"
  /\ \E g \in GarbageWords :
       LET s1 == skipRecords(wadFile, f, 16 + 116, g)
           s2 == skipRecords(wadFile, skipBytes(s1, 5 * 4), 24, g)
           d  == RunOps(wadFile, s2, <<Rd(4)>>, g)
           numDebugNames == U32OfBytes(d.bytes)
           c  == RunOps(wadFile, skipBytes(d.s, Amount(MulU32(numDebugNames, 16))),
                        <<Rd(4)>>, g)
           count == U32OfBytes(c.bytes)
       IN  f' = skipBytes(c.s,
                  Amount(AddU32(MulU32(SubU32(numDebugNames, count), 4), W(0, 8))))
  /\ pc' = "wad_packedData"
  /\ UNCHANGED <<wadFile, mapFile, wad, map, oWad, oMap, caller, app, loc>>

\* wad.mPackedData.resize(packedDataSize); readArray(...); return wad;
\* The blob is known by where it starts in the file and by how many of its
\* bytes were read; the bytes after those are 0.
wadPackedData ==
  /\ pc = "wad_packedData"
  /\ wad' = [wad EXCEPT
        !.mPackedData.start = f.pos,
        !.mPackedData.avail = Extracted(wadFile, f, wad.mPackedData.size)]
  /\ f' = AfterRead(wadFile, f, wad.mPackedData.size)
  /\ WadReturns(Some(wad'), "end")
  /\ UNCHANGED <<wadFile, mapFile, map, oMap, caller, app>>

loadWadFile ==
  \/ wadOpen \/ wadHeader \/ wadSkipLead \/ wadBitmaps \/ wadTexturePages
  \/ wadTextureDefs \/ wadModels \/ wadSkipTail \/ wadPackedData

----------------------------------------------------------------------------
(* The archive files the model decodes.                                    *)

BitmapBytes(offset) == BN(offset) \o Zeros(4) \o B16(256) \o B16(256)

ModelInfoBytes(offsetData, offsetParams) ==
  BN(offsetData) \o Zeros(8) \o BN(offsetParams) \o Zeros(20)

RECURSIVE Concat(_)
Concat(parts) == IF parts = <<>> THEN <<>> ELSE Head(parts) \o Concat(Tail(parts))

\* The header and the tables of an archive with the given bitmaps, texture
\* definitions and model names.
WadTables(wadInfo, bitmaps, textureDefs, names, infos) ==
  B32(wadInfo) \o BN(5) \o Zeros(8)
  \o BN(2) \o <<9, 9>> \o BN(0)
  \o <<0, 0, 1, 0>> \o Zeros(8) \o Zeros(6 * 12) \o <<9, 9>>
  \o BN(0) \o BN(1) \o <<9>> \o Zeros(4) \o BN(1) \o Zeros(4)
  \o BN(Len(bitmaps)) \o Concat(bitmaps)
  \o BN(1) \o BN(0) \o Name16(<<80>>)
  \o BN(Len(textureDefs)) \o Concat(textureDefs)
  \o BN(0)
  \o BN(Len(names)) \o Concat([k \in 1..Len(names) |-> Name16(names[k])])
  \o Concat(infos)
  \o BN(0) \o Zeros(20) \o BN(1) \o Zeros(24)
  \o BN(1) \o Zeros(16) \o BN(0) \o Zeros(12)

\* An archive file: the lookup tables, the header and the tables, and
\* packedLen bytes of packed data.
WadFile(tables, packedLen) ==
  <<Run(<<0>>, LookupTablesSize), Run(tables, 1)>>
  \o (IF packedLen > 0 THEN <<Run(<<7>>, packedLen)>> ELSE <<>>)

BaseTables(wadInfo) ==
  WadTables(wadInfo, <<BitmapBytes(0), BitmapBytes(65536)>>,
            <<TextureDefBytes(0, 0), TextureDefBytes(1, 1)>>, <<NameA, NameB>>,
            <<ModelInfoBytes(100, 150), ModelInfoBytes(200, 250)>>)

\* Header words: version 1 with sizes of 0, 16, 0x010004 and 0xFFFFFF bytes,
\* and the versions 0 and 2.
WadInfos ==
  {W(256, 0), W(256, 16), W(257, 4), W(511, 65535),
   W(0, 16), W(0, 257), W(1, 16), W(512, 16)}

\* The lengths the base archive is cut to.
WadTruncStep == 25
WadTruncLens ==
  {0, 1000, LookupTablesSize, LookupTablesSize + 2}
  \cup {LookupTablesSize + n : n \in {k \in 4..(Len(BaseTables(W(256, 16))) + 16) :
                                        k % WadTruncStep = 0}}

WadInputs ==
  {WadFile(BaseTables(i), PackedDataSize(i) + d) : i \in WadInfos, d \in {0, 3}}
  \cup {WadFile(BaseTables(i), PackedDataSize(i) - 1) :
          i \in {j \in WadInfos : PackedDataSize(j) > 0}}
  \cup {Truncate(WadFile(BaseTables(W(256, 16)), 16), n) : n \in WadTruncLens}
  \cup {NoFile}

InitWad ==
  /\ wadFile \in WadInputs
  /\ mapFile = NoFile
  /\ f = Stream(0)
  /\ pc = "wad_open"
  /\ loc = NoLocals
  /\ wad = EmptyWad
  /\ map = EmptyMap
  /\ oWad = None
  /\ oMap = None
  /\ caller = "none"
  /\ app = NoApp

SpecWad == InitWad /\ [][loadWadFile]_vars

----------------------------------------------------------------------------
(* The packed data of an archive, and what is read out of it.              *)

\* The blob has `size` bytes: the first `avail` came from the file, the
\* others are 0.
InBlob(w, offset, n) == offset + n <= w.mPackedData.size

BlobByte(w, i) ==
  IF i < w.mPackedData.avail THEN ByteAt(wadFile, w.mPackedData.start + i) ELSE 0

BlobU32(w, offset) == U32OfBytes([k \in 1..4 |-> BlobByte(w, offset + k - 1)])

\* The elements of a vector, as a set.
VecValues(v) ==
  {v.elems[k] : k \in 1..Len(v.elems)}
  \cup (IF v.size > Len(v.elems) THEN {v.fill} ELSE {})

\* std::sort, then std::unique and erase: the values in ascending order.
RECURSIVE SortedUnique(_)
SortedUnique(S) ==
  IF S = {} THEN <<>>
  ELSE LET least == CHOOSE x \in S : \A y \in S : x <= y
       IN  <<least>> \o SortedUnique(S \ {least})

\* std::sort of a vector of ints.
RECURSIVE SortInsert(_, _)
SortInsert(x, s) ==
  IF s = <<>> THEN <<x>>
  ELSE IF x <= Head(s) THEN <<x>> \o s
  ELSE <<Head(s)>> \o SortInsert(x, Tail(s))

RECURSIVE Sort(_)
Sort(s) == IF s = <<>> THEN <<>> ELSE SortInsert(Head(s), Sort(Tail(s)))

\* std::unique and the erase of what it leaves behind: of every run of equal
\* elements the first one stays.
RECURSIVE Unique(_)
Unique(s) ==
  IF Len(s) <= 1 THEN s
  ELSE IF s[1] = s[2] THEN Unique(Tail(s))
  ELSE <<Head(s)>> \o Unique(Tail(s))

\* The end of both functions: sort, unique, erase.
SortAndUnique_NoSort(pages) == Unique(pages)
SortAndUnique(pages) == Unique(Sort(pages))

\* The bitmapIndex of every texture definition, in their order.  The elements
\* of a vector that are not kept one by one are all the same.
PagesPushed(v) ==
  [k \in 1..Len(v.elems) |-> v.elems[k].bitmapIndex]
  \o (IF v.size > Len(v.elems) THEN <<v.fill.bitmapIndex>> ELSE <<>>)

determineWorldTexturePagesUsed(m) == SortAndUnique(PagesPushed(m.mTextureDefs))

TEXTURE_PAGE_SIZE == 256

\* What buildTextureAtlas reads outside of the memory it may read: the
\* palette in front of the blob, the BitmapInfo of every page, and the
\* 256 * 256 bytes of the page in the blob.
AtlasFaults(w, pages) ==
  (IF InBlob(w, 0, 4 * 256) THEN {} ELSE {"blob"})
  \cup {"bitmap" : k \in {j \in 1..Len(pages) : pages[j] >= w.mBitmaps.size}}
  \cup {"blob" : k \in {j \in 1..Len(pages) :
                         /\ pages[j] < w.mBitmaps.size
                         /\ ~InBlob(w, Amount(VecAt(w.mBitmaps, pages[j]).offset),
                                    TEXTURE_PAGE_SIZE * TEXTURE_PAGE_SIZE)}}

\* lookupColorIndex(index): 4 bytes of the blob at index * 4.
ColorFaults(w, index) == IF InBlob(w, index * 4, 4) THEN {} ELSE {"blob"}

\* buildAtlasUvOffsetTable: a table of pages.back() + 1 floats.  The entry of
\* the i-th page is i / pages.size(), kept as the pair of the two numbers;
\* every other entry is 0 and is left out of `set`.
buildAtlasUvOffsetTable_ByPage(pages) ==
  [size |-> IF pages = <<>> THEN 0 ELSE pages[Len(pages)] + 1,
   set  |-> [p \in {pages[i] : i \in 1..Len(pages)} |-> <<p, Len(pages)>>]]
buildAtlasUvOffsetTable(pages) ==
  [size |-> IF pages = <<>> THEN 0 ELSE pages[Len(pages)] + 1,
   set  |-> [p \in {pages[i] : i \in 1..Len(pages)} |->
               <<(CHOOSE i \in 1..Len(pages) : pages[i] = p) - 1, Len(pages)>>]]

TextureAtlas(pages) ==
  [mWidth     |-> TEXTURE_PAGE_SIZE * Len(pages),
   mUvOffsets |-> buildAtlasUvOffsetTable(pages)]


----------------------------------------------------------------------------
(* WadData::loadModel and the models of a map (map_renderer.cpp).          *)

\* A bound of the model: the faces of a model that are followed one by one.
MaxFaces == 3

\* The header of a model: numVertices, vertexListStart, numFaces and
\* faceListStart, 40 bytes into the 80 bytes at offsetData.  Outside of the
\* blob the four words are whatever memory holds there.
ModelHeader(w, entry, g) ==
  LET at == Amount(entry.offsetData)
      word(k) == IF InBlob(w, at, 80) THEN BlobU32(w, at + 40 + 4 * k) ELSE g
  IN  [numVertices     |-> word(0),
       vertexListStart |-> word(1),
       numFaces        |-> word(2),
       faceListStart   |-> word(3)]

\* The mTexture of the faces of a model, 32 bytes a face.
ModelFaceTextures(w, h, g) ==
  LET at == Amount(h.faceListStart)
      n  == Amount(h.numFaces)
  IN  Vec([k \in 1..Min(n, MaxFaces) |->
             IF InBlob(w, at + 32 * (k - 1), 32)
             THEN BlobU32(w, at + 32 * (k - 1)) ELSE g],
          n, g)

\* The faces of a model that lies in the blob are followed one by one.
FacesFollowed(w, h) ==
  \/ Amount(h.numFaces) <= MaxFaces
  \/ ~InBlob(w, Amount(h.faceListStart), Amount(MulU32(h.numFaces, 32)))

\* What loadModel reads outside of the blob.
ModelFaults(w, entry, h) ==
  (IF InBlob(w, Amount(entry.offsetData), 80) THEN {} ELSE {"blob"})
  \cup (IF Amount(h.numFaces) = 0
           \/ InBlob(w, Amount(h.faceListStart), Amount(MulU32(h.numFaces, 32)))
        THEN {} ELSE {"blob"})
  \cup (IF InBlob(w, Amount(entry.offsetParams), 60) THEN {} ELSE {"blob"})

\* The names of the ModelInstances of a map.
ModelsUsed(m) ==
  {m.mItems[k].modelName :
     k \in {j \in 1..Len(m.mItems) : m.mItems[j].kind = "ModelInstance"}}

\* The texture definitions the faces of the used models name.
FaceTexturesUsed(w, m, g) ==
  UNION {VecValues(ModelFaceTextures(w, ModelHeader(w, w.mModels[name], g), g)) :
           name \in ModelsUsed(m)}

\* wad.mTextureDefs.at(face.mTexture)
TextureDefAtInRange(w, texture) ==
  IF texture.hi >= 16384 THEN FALSE
  ELSE texture.hi * 65536 + texture.lo < w.mTextureDefs.size

determineModelTexturePagesUsed(w, textures) ==
  SortedUnique({VecAt(w.mTextureDefs, Amount(t)).bitmapIndex : t \in textures})

----------------------------------------------------------------------------
(* The lookups of MapRenderer::buildMeshes.                                *)

\* The blockDefIndex of every terrain cell, extra terrain tile and block
\* instance of a map.
WrittenCells(m) == {m.mpTerrain[i].blockDefIndex : i \in DOMAIN m.mpTerrain}

BlockDefsUsed(m) ==
  WrittenCells(m)
  \cup (IF Cardinality(DOMAIN m.mpTerrain) < MAP_SIZE * MAP_SIZE
        THEN {ZeroTile.blockDefIndex} ELSE {})
  \cup {m.mItems[k].blockDefIndex :
          k \in {j \in 1..Len(m.mItems) :
                   m.mItems[j].kind \in {"ExtraTerrainTile", "BlockInstance"}}}

\* map.mBlockDefs[index]
BlockDefInRange(m, index) ==
  IF index.hi >= 16384 THEN FALSE
  ELSE index.hi * 65536 + index.lo < m.mBlockDefs.size


----------------------------------------------------------------------------
(* MapViewerApp::loadMap and the construction of the MapRenderer.          *)

\* A bound of the model: the number of loadMap calls of a run.
MaxLoads == 2

RendererLocals ==
  [worldTextures |-> None,
   modelTextures |-> None,
   faults        |-> {},      \* history: the kinds of reads outside of memory
   exit          |-> "running"]

\* A read outside of the memory of an object is undefined: the process may
\* die of it, or go on with whatever it has read.
AfterLookups(faults, next, locals) ==
  \/ /\ faults # {}
     /\ pc' = "crashed"
     /\ loc' = [loc EXCEPT !.faults = @ \cup faults, !.exit = "crashed"]
  \/ /\ pc' = next
     /\ loc' = [locals EXCEPT !.faults = @ \cup faults]

\* bool MapViewerApp::loadMap(mapFile): the archive next to the map is
\* decoded first.
loadMap(wadFiles, mapFiles) ==
  /\ pc = "idle"
  /\ app.loads < MaxLoads
  /\ \E w \in wadFiles, m \in mapFiles :
       /\ wadFile' = w
       /\ mapFile' = m
  /\ app' = [app EXCEPT !.loads = @ + 1, !.returned = None,
                         !.before = app.mpMapRenderer]
  /\ pc' = "wad_open"
  /\ f' = Stream(0)
  /\ loc' = NoLocals
  /\ wad' = EmptyWad
  /\ map' = EmptyMap
  /\ oWad' = None
  /\ oMap' = None
  /\ UNCHANGED caller

\* return false;
loadMapFails ==
  /\ app' = [app EXCEPT !.returned = Some(FALSE)]
  /\ pc' = "idle"
  /\ UNCHANGED <<loc, f>>

\* if (auto oWad = loadWadFile(wadFile))
loadMap_afterWad ==
  /\ pc = "loadMap_afterWad"
  /\ IF oWad # None
     THEN /\ pc' = "map_open"
          /\ UNCHANGED <<app, loc, f>>
     ELSE loadMapFails
  /\ UNCHANGED <<wadFile, mapFile, wad, map, oWad, oMap, caller>>

\* if (auto oMap = loadMapfile(mapFile, *oWad))
loadMap_afterMap ==
  /\ pc = "loadMap_afterMap"
  /\ IF oMap # None
     THEN /\ pc' = "renderer_worldTextures"
          /\ loc' = RendererLocals
          /\ UNCHANGED <<app, f>>
     ELSE loadMapFails
  /\ UNCHANGED <<wadFile, mapFile, wad, map, oWad, oMap, caller>>

\* mBackgroundColor(wad.lookupColorIndex(wad.mBackgroundColor)), and the
\* atlas of the texture pages of the map.
rendererWorldTextures ==
  /\ pc = "renderer_worldTextures"
  /\ LET pagesUsed == determineWorldTexturePagesUsed(oMap.value)
     IN  AfterLookups(ColorFaults(oWad.value, oWad.value.mBackgroundColor)
                        \cup AtlasFaults(oWad.value, pagesUsed),
                      "renderer_models",
                      [loc EXCEPT !.worldTextures = TextureAtlas(pagesUsed)])
  /\ UNCHANGED <<wadFile, mapFile, f, wad, map, oWad, oMap, caller, app>>

\* loadUsedModels, determineModelTexturePagesUsed and the atlas of the
\* texture pages of the models.
rendererModels ==
  /\ pc = "renderer_models"
  /\ \E g \in GarbageWords :
       LET w == oWad.value
           names == ModelsUsed(oMap.value)
           faults == UNION {ModelFaults(w, w.mModels[n], ModelHeader(w, w.mModels[n], g)) :
                              n \in names}
           textures == FaceTexturesUsed(w, oMap.value, g)
           pagesUsed == determineModelTexturePagesUsed(w, textures)
       IN  /\ faults = {} => g = W(0, 0)
           /\ \A n \in names : FacesFollowed(w, ModelHeader(w, w.mModels[n], g))
           /\ IF \E n \in names : AllocMayFail(ModelHeader(w, w.mModels[n], g).numFaces)
              THEN /\ pc' = "threw"
                   /\ loc' = [loc EXCEPT !.faults = @ \cup faults,
                                         !.exit = "bad_alloc"]
              ELSE IF \E t \in textures : ~TextureDefAtInRange(w, t)
              THEN /\ pc' = "threw"
                   /\ loc' = [loc EXCEPT !.faults = @ \cup faults,
                                         !.exit = "out_of_range"]
              ELSE AfterLookups(faults \cup AtlasFaults(w, pagesUsed),
                                "renderer_buildMeshes",
                                [loc EXCEPT !.modelTextures = TextureAtlas(pagesUsed)])
  /\ UNCHANGED <<wadFile, mapFile, f, wad, map, oWad, oMap, caller, app>>

\* buildMeshes: map.mBlockDefs[blockDefIndex] for every terrain cell, extra
\* terrain tile and block instance.
rendererBuildMeshes ==
  /\ pc = "renderer_buildMeshes"
  /\ AfterLookups(
       {"blockDef" : i \in {j \in BlockDefsUsed(oMap.value) :
                              ~BlockDefInRange(oMap.value, j)}},
       "loadMap_assign", loc)
  /\ UNCHANGED <<wadFile, mapFile, f, wad, map, oWad, oMap, caller, app>>

\* mpMapRenderer = std::make_unique<MapRenderer>(*oMap, *oWad); return true;
loadMap_assign ==
  /\ pc = "loadMap_assign"
  /\ app' = [app EXCEPT
        !.mpMapRenderer = Some([map    |-> oMap.value,
                                wad    |-> oWad.value,
                                faults |-> loc.faults]),
        !.returned = Some(TRUE)]
  /\ pc' = "idle"
  /\ UNCHANGED <<wadFile, mapFile, f, wad, map, oWad, oMap, caller, loc>>


----------------------------------------------------------------------------
(* The application: maps are loaded one after the other.                   *)

\* The blob of the archives the application loads: the palette, two texture
\* pages, and the data of the two models.
PaletteSize == 4 * 256
PageSize == TEXTURE_PAGE_SIZE * TEXTURE_PAGE_SIZE
ModelBlobSize == 80 + 18 + 32 + 60

\* The data of a model with three vertices and one face, at `base`.
ModelBlob(base, texture) ==
  Zeros(40) \o BN(3) \o BN(base + 80) \o BN(1) \o BN(base + 98) \o Zeros(24)
  \o Zeros(18)
  \o BN(texture) \o B16(0) \o B16(1) \o B16(2) \o B16(0) \o B16(0) \o Zeros(18)
  \o Zeros(60)

ModelsAt == PaletteSize + 2 * PageSize

AppBlob ==
  <<Run(<<10, 20, 30, 0>>, 256), Run(<<3>>, PageSize), Run(<<4>>, PageSize),
    Run(ModelBlob(ModelsAt, 0) \o ModelBlob(ModelsAt + ModelBlobSize, 1), 1)>>

AppBlobSize == ModelsAt + 2 * ModelBlobSize

AppTables(version) ==
  WadTables(W(version * 256 + AppBlobSize \div 65536, AppBlobSize % 65536),
            <<BitmapBytes(PaletteSize), BitmapBytes(PaletteSize + PageSize)>>,
            <<TextureDefBytes(0, 0), TextureDefBytes(1, 1)>>,
            <<NameA, NameB>>,
            <<ModelInfoBytes(ModelsAt, ModelsAt + 130),
              ModelInfoBytes(ModelsAt + ModelBlobSize,
                             ModelsAt + ModelBlobSize + 130)>>)

AppWad(version) ==
  <<Run(<<0>>, LookupTablesSize), Run(AppTables(version), 1)>> \o AppBlob

\* An archive whose header declares a blob that ends where the parameters of
\* its last model, the one the maps name, begin, and whose file holds just
\* that blob.
ShortBlobTables ==
  WadTables(W(256 + (AppBlobSize - 60) \div 65536, (AppBlobSize - 60) % 65536),
            <<BitmapBytes(PaletteSize), BitmapBytes(PaletteSize + PageSize)>>,
            <<TextureDefBytes(0, 0), TextureDefBytes(1, 1)>>,
            <<NameB, NameA>>,
            <<ModelInfoBytes(ModelsAt, ModelsAt + 130),
              ModelInfoBytes(ModelsAt + ModelBlobSize,
                             ModelsAt + ModelBlobSize + 130)>>)

ShortBlobWad ==
  Truncate(<<Run(<<0>>, LookupTablesSize), Run(ShortBlobTables, 1)>> \o AppBlob,
           FileLen(AppWad(1)) - 60)

\* A whole archive, one of version 2, one that ends a byte early, one with a
\* blob that ends before the parameters of a model, and none.
AppWads ==
  {AppWad(1), AppWad(2),
   Truncate(AppWad(1), FileLen(AppWad(1)) - 1), ShortBlobWad, NoFile}

\* A map file like RichMap whose second texture definition names page 5.
PageFiveMap ==
  MapHeaderBytes(SUCK, W(0, 40), 2, 1, 0, 1, 0)
  \o MinusOne
  \o BlockDefBytes(1)
  \o TextureDefBytes(0, 0) \o TextureDefBytes(5, 0)
  \o MinusOne \o ModelNameList
  \o ItemKinds["T"]

AppMaps ==
  {Bytes(RichMap(<<"T", "E", "S10", "M0">>, 4)),
   Bytes(RichMap(<<"B", "M1", "T1", "E7">>, 4)),
   Bytes(RichMap(<<"B", "U80">>, 2)),
   Bytes(PlainMap(<<"M2">>)),
   Bytes(PlainMap(<<>>)),
   Bytes(PageFiveMap),
   Bytes(MapHeaderBytes(<<0, 0, 0, 0>>, W(0, 40), 0, 0, 0, 0, 0)),
   Truncate(Bytes(RichMap(<<"T", "E", "S10", "M0">>, 4)),
            Len(RichMap(<<>>, 0)) + 40),
   NoFile}

Init ==
  /\ wadFile = NoFile
  /\ mapFile = NoFile
  /\ f = Stream(0)
  /\ pc = "idle"
  /\ loc = NoLocals
  /\ wad = EmptyWad
  /\ map = EmptyMap
  /\ oWad = None
  /\ oMap = None
  /\ caller = "loadMap"
  /\ app = NoApp

Next ==
  \/ loadMap(AppWads, AppMaps)
  \/ loadWadFile
  \/ loadMap_afterWad
  \/ loadMapfile
  \/ loadMap_afterMap
  \/ rendererWorldTextures
  \/ rendererModels
  \/ rendererBuildMeshes
  \/ loadMap_assign

Spec == Init /\ [][Next]_vars


----------------------------------------------------------------------------
(* Properties of loadWadFile.                                              *)

\* The archive file holds its header word, 4 bytes after the lookup tables.
HasWadInfo == HasBytes(wadFile, LookupTablesSize + 4)

\* The bytes of the header word, the lowest first.
WadInfoBytes == FileBytes(wadFile, LookupTablesSize, 4)

\* C3: the version of an archive is the highest byte of its header word and
\* the size of its packed data the three bytes below: an archive whose
\* highest byte is not 1 is turned down at the header, and the blob of a
\* returned archive has exactly as many bytes as the three low bytes say.
C3_VersionAndSize ==
  HasWadInfo =>
    /\ WadInfoBytes[4] # 1 =>
         /\ oWad = None
         /\ pc \in {"wad_open", "wad_header", "returned"}
         /\ pc = "returned" => loc.exit = "version"
    /\ oWad # None =>
         /\ WadInfoBytes[4] = 1
         /\ oWad.value.mPackedData.size =
              WadInfoBytes[1] + 256 * WadInfoBytes[2] + 65536 * WadInfoBytes[3]

\* C3 witness: an archive with the header word 0x01010004 was returned with
\* a blob of 0x010004 bytes, all of them read from the file.
C3_Witness ==
  /\ pc = "returned"
  /\ HasWadInfo
  /\ WadInfoBytes = <<4, 0, 1, 1>>
  /\ oWad # None
  /\ oWad.value.mPackedData.size = 65540
  /\ oWad.value.mPackedData.avail = 65540

\* C4: of a file that holds the header word, an archive is returned only
\* when no read of the decoder came to the end of the file: the blob of a
\* returned archive was read whole.
C4_TruncatedArchiveFails ==
  (HasWadInfo /\ oWad # None) =>
    /\ ~f.fail
    /\ oWad.value.mPackedData.avail = oWad.value.mPackedData.size

----------------------------------------------------------------------------
(* Properties of the application.                                          *)

CallEnded == pc \in {"idle", "threw", "crashed"} /\ app.loads > 0

MapDecoding ==
  pc \in {"map_open", "map_signature", "map_version", "map_header",
          "map_texturePages", "map_blockDefs", "map_textureDefs",
          "map_skipAnimations", "map_strats", "map_modelNamesInit",
          "map_modelNames", "map_skipUnknown", "map_reserveItems", "map_items",
          "loadMap_afterMap"}

\* C5: a call of loadMap that did not get an archive and a map out of the
\* decoders (for another reason than a lack of memory) has returned false
\* and has left the scene as it was before the call; a call that has
\* returned true has put a scene built from the archive and the map of this
\* call in its place; and the map decoder runs only with a decoded archive.
C5_LoadAllOrNothing ==
  /\ (CallEnded /\ (oWad = None \/ oMap = None) /\ loc.exit # "bad_alloc") =>
        /\ app.returned = Some(FALSE)
        /\ app.mpMapRenderer = app.before
  /\ (pc = "idle" /\ app.returned = Some(TRUE)) =>
        /\ oWad # None /\ oMap # None
        /\ app.mpMapRenderer # None
        /\ app.mpMapRenderer.value.map = oMap.value
        /\ app.mpMapRenderer.value.wad = oWad.value
  /\ MapDecoding => oWad # None

HasFaults == "faults" \in DOMAIN loc

\* C8: the construction of a scene never reads map.mBlockDefs at an index
\* outside of it.
C8_BlockDefsReadInRange ==
  /\ HasFaults => "blockDef" \notin loc.faults
  /\ app.mpMapRenderer # None => "blockDef" \notin app.mpMapRenderer.value.faults

\* C9: every texture definition of a decoded map names a bitmap the archive
\* has, and the construction of a scene never reads wad.mBitmaps at an index
\* outside of it.
C9_TexturePagesValid ==
  /\ (oMap # None /\ oWad # None) =>
        \A d \in VecValues(oMap.value.mTextureDefs) :
          d.bitmapIndex < oWad.value.mBitmaps.size
  /\ HasFaults => "bitmap" \notin loc.faults

----------------------------------------------------------------------------
(* Properties of the item loop of loadMapfile.                             *)

\* The file holds the 12 header bytes of the record the item loop is at.
WholeHeaderNext ==
  /\ InItemLoop
  /\ Good(f)
  /\ f.pos + 12 <= FileLen(mapFile)

HeaderBytesNext == FileBytes(mapFile, f.pos, 12)

\* The bits 2-9, 11 and 12 of the high half of the flags word, which is the
\* bytes 11 and 12 of a record.
MaskedType(b) ==
  (b[11] - (b[11] % 4)) + 256 * ((b[12] % 4) + 8 * ((b[12] \div 8) % 4))

LastItem(m) == m.mItems[Len(m.mItems)]

\* The step has appended one item of the given kind at (x, y).
ItemAppended(kind, x, y) ==
  /\ Len(map'.mItems) = Len(map.mItems) + 1
  /\ SubSeq(map'.mItems, 1, Len(map.mItems)) = map.mItems
  /\ LastItem(map').kind = kind
  /\ LastItem(map').x = x
  /\ LastItem(map').y = y

\* C11: the arm a record is dispatched to is a function of the bits of its
\* flags word under the mask 0x1BFC0000 alone, shifted down by 16, and the x
\* and y kept for an item are the low halves of the two words before the
\* flags word.
C11_TypeFromMaskedFlags ==
  [][WholeHeaderNext =>
       LET b == HeaderBytesNext
           t == MaskedType(b)
           x == b[1] + 256 * b[2]
           y == b[5] + 256 * b[6]
       IN  /\ loc'.types = Append(loc.types, t)
           /\ t = 4 =>
                /\ loc'.numTerrainTilesRead = loc.numTerrainTilesRead + 1
                /\ map'.mItems = map.mItems
           /\ t = 8 => ItemAppended("ExtraTerrainTile", x, y)
           /\ t = 64 => ItemAppended("BlockInstance", x, y)
           /\ t = 4096 =>
                \/ pc' = "threw" /\ map' = map
                \/ map' = map
                \/ ItemAppended("ModelInstance", x, y)
           /\ t \in {16, 32, 256, 512, 2048} =>
                /\ map' = map
                /\ f'.pos = f.pos + 12 + SkippedBytes(t)
           /\ t \notin {4, 8, 16, 32, 64, 256, 512, 2048, 4096} =>
                /\ pc' = "returned"
                /\ oMap' = None]_vars

\* C11 witness: a record with the flags word 0xA4420302 and the position
\* words 0x00030005 and 0xFFFF0006 was decoded as the block instance at (5, 6).
C11_Witness ==
  /\ pc = "returned"
  /\ mapFile = Bytes(PlainMap(<<"BH">>))
  /\ loc.types = <<64>>
  /\ oMap = Some(map)
  /\ Len(map.mItems) = 1
  /\ map.mItems[1].kind = "BlockInstance"
  /\ map.mItems[1].x = 5
  /\ map.mItems[1].y = 6

\* The number of tag-0x4 records among the records decoded so far.
RECURSIVE TerrainRecordsIn(_)
TerrainRecordsIn(types) ==
  IF types = <<>> THEN 0
  ELSE (IF Head(types) = 4 THEN 1 ELSE 0) + TerrainRecordsIn(Tail(types))

\* The file holds the whole tag-0x4 record the item loop is at.
WholeTerrainRecordNext ==
  /\ WholeHeaderNext
  /\ MaskedType(HeaderBytesNext) = 4
  /\ f.pos + 32 <= FileLen(mapFile)

----------------------------------------------------------------------------
(* Mesh buffers (mesh.hpp) and the vertices of buildMeshes                 *)
(* (map_renderer.cpp).                                                     *)

\* MeshBufferData: the vertex buffer and the index buffer.  `calls` is
\* history: the vertices every addQuad and addTriangle call was given.
EmptyBuffer == [mVertexBuffer |-> <<>>, mIndexBuffer |-> <<>>, calls |-> <<>>]

\* for (const auto index : {0, 3, 1, 1, 3, 2})
QuadIndices_Fan == <<0, 1, 2, 0, 2, 3>>
QuadIndices == <<0, 3, 1, 1, 3, 2>>

\* for (const auto index : {0, 2, 1})
TriangleIndices == <<0, 2, 1>>

\* mIndexBuffer.push_back(uint16_t(index + indexOffset)) for every index.
PushIndices(buffer, indices) ==
  buffer.mIndexBuffer
  \o [k \in 1..Len(indices) |->
        (indices[k] + Len(buffer.mVertexBuffer)) % 65536]

addQuad(buffer, v0, v1, v2, v3) ==
  [mVertexBuffer |-> buffer.mVertexBuffer \o <<v0, v1, v2, v3>>,
   mIndexBuffer  |-> PushIndices(buffer, QuadIndices),
   calls         |-> Append(buffer.calls, <<v0, v1, v2, v3>>)]

addTriangle(buffer, v0, v1, v2) ==
  [mVertexBuffer |-> buffer.mVertexBuffer \o <<v0, v1, v2>>,
   mIndexBuffer  |-> PushIndices(buffer, TriangleIndices),
   calls         |-> Append(buffer.calls, <<v0, v1, v2>>)]

\* A float is kept as the integer 256 times its value: every position of a
\* terrain or block vertex is a multiple of 1/256 well inside the range a
\* float holds exactly.
\*   vX = float(x) - 32.0f; vY = float(verticalOffset) / -256.0f;
\*   vZ = float(y) - 32.0f
makeVertex_NotCentered(x, y, verticalOffset, uv) ==
  [x |-> 256 * x, y |-> 0 - verticalOffset, z |-> 256 * y, uv |-> uv]
makeVertex(x, y, verticalOffset, uv) ==
  [x |-> 256 * (x - 32), y |-> 0 - verticalOffset, z |-> 256 * (y - 32),
   uv |-> uv]

\* atlas.mUvOffsets[page]: the entry i / n of a page of the atlas, 0 for
\* another page inside the table, and whatever memory holds after the table.
UvOffsetAt(atlas, page, g) ==
  IF page \in DOMAIN atlas.mUvOffsets.set THEN atlas.mUvOffsets.set[page]
  ELSE IF page < atlas.mUvOffsets.size THEN <<0, 1>>
  ELSE <<g.lo, 1>>

\* What the memory after a vector of texture definitions may hold.
GarbageTextureDef(g) ==
  [uvs         |-> [k \in 1..4 |-> [u |-> g.lo % 256, v |-> g.lo \div 256]],
   bitmapIndex |-> g.hi,
   isMasked    |-> g.lo % 2 = 1]

\* textureDefs[textureDefIndex]
TextureDefAt(textureDefs, index, g) ==
  IF index < textureDefs.size THEN VecAt(textureDefs, index)
  ELSE GarbageTextureDef(g)

\* getTexCoords: the four TexCoords of a texture definition,
\*   u = (float(uv.u) + 0.5f) / atlas.mWidth + uOffset,
\*   v = (float(uv.v) + 0.5f) / float(TEXTURE_PAGE_SIZE),
\* each kept as the fraction num / den of the exact value, uOffset being the
\* fraction i / n: u = ((2 uv.u + 1) n + 2 mWidth i) / (2 mWidth n).
getTexCoords(textureDefIndex, atlas, textureDefs, g) ==
  LET texDef  == TextureDefAt(textureDefs, textureDefIndex, g)
      uOffset == UvOffsetAt(atlas, texDef.bitmapIndex, g)
  IN  [k \in 1..4 |->
         [u |-> [num |-> (2 * texDef.uvs[k].u + 1) * uOffset[2]
                           + 2 * atlas.mWidth * uOffset[1],
                 den |-> 2 * atlas.mWidth * uOffset[2]],
          v |-> [num |-> 2 * texDef.uvs[k].v + 1,
                 den |-> 2 * TEXTURE_PAGE_SIZE]]]

\* The reads of getTexCoords outside of the vectors it indexes.
TexCoordsFaults(textureDefIndex, atlas, textureDefs, g) ==
  (IF textureDefIndex < textureDefs.size THEN {} ELSE {"textureDef"})
  \cup (IF TextureDefAt(textureDefs, textureDefIndex, g).bitmapIndex
             < atlas.mUvOffsets.size
        THEN {} ELSE {"uvOffset"})

----------------------------------------------------------------------------
(* MapRenderer::buildMeshes: the terrain loop.                             *)

\* What the memory after the vector of block definitions may hold.
GarbageBlockDef(g) ==
  [texturesInside  |-> [front |-> g.lo, top |-> g.lo, left |-> g.lo,
                        back |-> g.lo, right |-> g.lo, bottom |-> g.lo],
   texturesOutside |-> [back |-> g.lo, top |-> g.lo, left |-> g.lo,
                        front |-> g.lo, right |-> g.lo, bottom |-> g.lo],
   vertexCoordinatesY |-> [k \in 1..8 |-> S16OfBytes(B16(g.hi))]]

\* map.mBlockDefs[blockDefIndex]
BlockDefAt(m, index, g) ==
  IF BlockDefInRange(m, index) THEN VecAt(m.mBlockDefs, Amount(index))
  ELSE GarbageBlockDef(g)

\* The inside bottom texture of the block definition of the cell (x, y).
TerrainTexture_InsideLeft(m, x, y, g) ==
  BlockDefAt(m, terrainAt(m, x, y).blockDefIndex, g).texturesInside.left
TerrainTexture(m, x, y, g) ==
  BlockDefAt(m, terrainAt(m, x, y).blockDefIndex, g).texturesInside.bottom

\* The cells the terrain loop does not skip, as x + y * MAP_SIZE.
TerrainCellsDrawn(m, g) ==
  {i \in DOMAIN m.mpTerrain :
     TerrainTexture(m, i % MAP_SIZE, i \div MAP_SIZE, g) # 0}
  \cup (IF BlockDefAt(m, ZeroTile.blockDefIndex, g).texturesInside.bottom # 0
        THEN (0..(MAP_SIZE * MAP_SIZE - 1)) \ DOMAIN m.mpTerrain
        ELSE {})

\* The vertical offsets of the four corners of the cell (x, y): its own, and
\* those of the cells to the right, below, and right below, where there are
\* such cells.
TerrainCornerOffsets_Unclamped(m, x, y) ==
  [vertOffset0 |-> terrainAt(m, x, y).verticalOffset,
   vertOffset1 |-> terrainAt(m, x + 1, y).verticalOffset,
   vertOffset2 |-> terrainAt(m, x, y + 1).verticalOffset,
   vertOffset3 |-> terrainAt(m, x + 1, y + 1).verticalOffset]
TerrainCornerOffsets(m, x, y) ==
  LET vertOffset0 == terrainAt(m, x, y).verticalOffset
  IN  [vertOffset0 |-> vertOffset0,
       vertOffset1 |-> IF x < MAP_SIZE - 1
                       THEN terrainAt(m, x + 1, y).verticalOffset
                       ELSE vertOffset0,
       vertOffset2 |-> IF y < MAP_SIZE - 1
                       THEN terrainAt(m, x, y + 1).verticalOffset
                       ELSE vertOffset0,
       vertOffset3 |-> IF x < MAP_SIZE - 1 /\ y < MAP_SIZE - 1
                       THEN terrainAt(m, x + 1, y + 1).verticalOffset
                       ELSE vertOffset0]

\* The coordinates terrainAt is called with for the cell (x, y) when it is
\* drawn.
TerrainAtCalls(x, y) ==
  {<<x, y>>}
  \cup (IF x < MAP_SIZE - 1 THEN {<<x + 1, y>>} ELSE {})
  \cup (IF y < MAP_SIZE - 1 THEN {<<x, y + 1>>} ELSE {})
  \cup (IF x < MAP_SIZE - 1 /\ y < MAP_SIZE - 1 THEN {<<x + 1, y + 1>>} ELSE {})

\* uvs[(k + rotation) % 4]
RotatedUv_Unrotated(uvs, k, rotation) == uvs[k + 1]
RotatedUv(uvs, k, rotation) == uvs[((k + rotation) % 4) + 1]

\* The quad of the cell (x, y).
TerrainQuad(m, atlas, x, y, g) ==
  LET uvs      == getTexCoords(TerrainTexture(m, x, y, g), atlas, m.mTextureDefs, g)
      v        == TerrainCornerOffsets(m, x, y)
      rotation == 4 - Flags_rotation(terrainAt(m, x, y).flags)
  IN  <<makeVertex(x,     y,     v.vertOffset0, RotatedUv(uvs, 0, rotation)),
        makeVertex(x + 1, y,     v.vertOffset1, RotatedUv(uvs, 1, rotation)),
        makeVertex(x + 1, y + 1, v.vertOffset3, RotatedUv(uvs, 2, rotation)),
        makeVertex(x,     y + 1, v.vertOffset2, RotatedUv(uvs, 3, rotation))>>

\* for (y ...) for (x ...): the quads of the drawn cells, row by row.
RECURSIVE AddTerrainQuads(_, _, _, _, _)
AddTerrainQuads(buffer, cells, m, atlas, g) ==
  IF cells = <<>> THEN buffer
  ELSE LET q == TerrainQuad(m, atlas, Head(cells) % MAP_SIZE,
                            Head(cells) \div MAP_SIZE, g)
       IN  AddTerrainQuads(addQuad(buffer, q[1], q[2], q[3], q[4]),
                           Tail(cells), m, atlas, g)

\* The reads of the terrain loop outside of the vectors it indexes.
TerrainFaults(m, atlas, g) ==
  {"blockDef" : i \in {j \in DOMAIN m.mpTerrain :
                         ~BlockDefInRange(m, m.mpTerrain[j].blockDefIndex)}}
  \cup {"blockDef" : i \in {j \in {0} :
                         /\ Cardinality(DOMAIN m.mpTerrain) < MAP_SIZE * MAP_SIZE
                         /\ ~BlockDefInRange(m, ZeroTile.blockDefIndex)}}
  \cup UNION {TexCoordsFaults(TerrainTexture(m, i % MAP_SIZE, i \div MAP_SIZE, g),
                              atlas, m.mTextureDefs, g) :
                i \in TerrainCellsDrawn(m, g)}

----------------------------------------------------------------------------
(* MapRenderer::buildMeshes: the items.                                    *)

\* [&](const ExtraTerrainTile& tile): one quad on the terrain buffer, unless
\* the inside bottom texture of its block definition is 0.
addExtraTerrain(buffer, m, atlas, tile, g) ==
  LET texture  == BlockDefAt(m, tile.blockDefIndex, g).texturesInside.bottom
      uvs      == getTexCoords(texture, atlas, m.mTextureDefs, g)
      rotation == 4 - Flags_rotation(tile.flags)
      x == tile.x
      y == tile.y
      verticalOffsets == tile.vertexCoordinatesY
  IN  IF texture = 0 THEN buffer
      ELSE addQuad(buffer,
             makeVertex(x,     y,     verticalOffsets[1], RotatedUv(uvs, 0, rotation)),
             makeVertex(x + 1, y,     verticalOffsets[2], RotatedUv(uvs, 1, rotation)),
             makeVertex(x + 1, y + 1, verticalOffsets[3], RotatedUv(uvs, 2, rotation)),
             makeVertex(x,     y + 1, verticalOffsets[4], RotatedUv(uvs, 3, rotation)))

ExtraTerrainFaults(m, atlas, tile, g) ==
  (IF BlockDefInRange(m, tile.blockDefIndex) THEN {} ELSE {"blockDef"})
  \cup (IF BlockDefAt(m, tile.blockDefIndex, g).texturesInside.bottom = 0 THEN {}
        ELSE TexCoordsFaults(BlockDefAt(m, tile.blockDefIndex, g).texturesInside.bottom,
                             atlas, m.mTextureDefs, g))

\* The eight MapVertex of a block instance, vertices[0] to vertices[7]: the
\* four corners of the cell twice, with the vertical offsets
\*   baseOffset + blockDef.vertexCoordinatesY[(i + rotation) % 4 (+ 4)]
\*              + block.vertexOffsetsY[i (+ 4)] * 4
BlockVertices_FineRotated(block, blockDef) ==
  LET x == block.x
      y == block.y
      rotation == Flags_rotation(block.flags)
      corner == <<<<x, y>>, <<x + 1, y>>, <<x + 1, y + 1>>, <<x, y + 1>>>>
  IN  [i \in 0..7 |->
         [x |-> corner[(i % 4) + 1][1],
          y |-> corner[(i % 4) + 1][2],
          verticalOffset |->
            IF i < 4
            THEN block.verticalOffset
                 + blockDef.vertexCoordinatesY[((i + rotation) % 4) + 1]
                 + block.vertexOffsetsY[((i + rotation) % 4) + 1] * 4
            ELSE block.verticalOffset
                 + blockDef.vertexCoordinatesY[(((i - 4) + rotation) % 4) + 4 + 1]
                 + block.vertexOffsetsY[(((i - 4) + rotation) % 4) + 4 + 1] * 4]]
BlockVertices(block, blockDef) ==
  LET x == block.x
      y == block.y
      rotation == Flags_rotation(block.flags)
      corner == <<<<x, y>>, <<x + 1, y>>, <<x + 1, y + 1>>, <<x, y + 1>>>>
  IN  [i \in 0..7 |->
         [x |-> corner[(i % 4) + 1][1],
          y |-> corner[(i % 4) + 1][2],
          verticalOffset |->
            IF i < 4
            THEN block.verticalOffset
                 + blockDef.vertexCoordinatesY[((i + rotation) % 4) + 1]
                 + block.vertexOffsetsY[i + 1] * 4
            ELSE block.verticalOffset
                 + blockDef.vertexCoordinatesY[(((i - 4) + rotation) % 4) + 4 + 1]
                 + block.vertexOffsetsY[i + 1] * 4]]

\* if (!texture || texture >= map.mTextureDefs.size()) return;
FaceSkipped_OutOfRangeOnly(texture, m) == texture >= m.mTextureDefs.size
FaceSkipped_ZeroOnly(texture, m) == texture = 0
FaceSkipped(texture, m) == texture = 0 \/ texture >= m.mTextureDefs.size

\* addFace: a quad on the masked or on the solid buffer.  `buffers` holds the
\* two buffers, `face` the texture, the four vertex indices and the texture
\* rotation of the call.
addFace_BothBuffers(buffers, m, atlas, vertices, face, g) ==
  IF FaceSkipped(face.texture, m) THEN buffers
  ELSE LET uvs == getTexCoords(face.texture, atlas, m.mTextureDefs, g)
           v(k) == LET mv == vertices[face.vi[k + 1]]
                   IN  makeVertex(mv.x, mv.y, mv.verticalOffset,
                                  RotatedUv(uvs, k, face.textureRotation))
       IN  [buffers EXCEPT
              !.blocksBufferMasked =
                 IF VecAt(m.mTextureDefs, face.texture).isMasked
                 THEN addQuad(@, v(0), v(1), v(2), v(3)) ELSE @,
              !.blocksBuffer = addQuad(@, v(0), v(1), v(2), v(3))]
addFace(buffers, m, atlas, vertices, face, g) ==
  IF FaceSkipped(face.texture, m) THEN buffers
  ELSE LET uvs == getTexCoords(face.texture, atlas, m.mTextureDefs, g)
           v(k) == LET mv == vertices[face.vi[k + 1]]
                   IN  makeVertex(mv.x, mv.y, mv.verticalOffset,
                                  RotatedUv(uvs, k, face.textureRotation))
       IN  IF VecAt(m.mTextureDefs, face.texture).isMasked
           THEN [buffers EXCEPT !.blocksBufferMasked = addQuad(@, v(0), v(1), v(2), v(3))]
           ELSE [buffers EXCEPT !.blocksBuffer = addQuad(@, v(0), v(1), v(2), v(3))]

\* The addFace calls of a block instance, in their order.
BlockFaces_SidesTurnedBack(blockDef, rotation) ==
  LET sides == <<blockDef.texturesOutside.left,  blockDef.texturesOutside.front,
                 blockDef.texturesOutside.right, blockDef.texturesOutside.back,
                 blockDef.texturesInside.left,   blockDef.texturesInside.front,
                 blockDef.texturesInside.right,  blockDef.texturesInside.back>>
      sidesRotation == rotation
      Face(texture, vi, textureRotation) ==
        [texture |-> texture, vi |-> vi, textureRotation |-> textureRotation]
  IN  <<Face(blockDef.texturesOutside.top,    <<4, 5, 6, 7>>, rotation),
        Face(blockDef.texturesInside.top,     <<7, 6, 5, 4>>, rotation),
        Face(blockDef.texturesOutside.bottom, <<3, 2, 1, 0>>, 4 - rotation),
        Face(blockDef.texturesInside.bottom,  <<0, 1, 2, 3>>, 4 - rotation),
        Face(sides[((0 + sidesRotation) % 4) + 1],     <<4, 7, 3, 0>>, 0),
        Face(sides[((1 + sidesRotation) % 4) + 1],     <<7, 6, 2, 3>>, 0),
        Face(sides[((2 + sidesRotation) % 4) + 1],     <<6, 5, 1, 2>>, 0),
        Face(sides[((3 + sidesRotation) % 4) + 1],     <<5, 4, 0, 1>>, 0),
        Face(sides[((0 + sidesRotation) % 4) + 4 + 1], <<7, 4, 0, 3>>, 0),
        Face(sides[((1 + sidesRotation) % 4) + 4 + 1], <<6, 7, 3, 2>>, 0),
        Face(sides[((2 + sidesRotation) % 4) + 4 + 1], <<5, 6, 2, 1>>, 0),
        Face(sides[((3 + sidesRotation) % 4) + 4 + 1], <<4, 5, 1, 0>>, 0)>>
BlockFaces(blockDef, rotation) ==
  LET sides == <<blockDef.texturesOutside.left,  blockDef.texturesOutside.front,
                 blockDef.texturesOutside.right, blockDef.texturesOutside.back,
                 blockDef.texturesInside.left,   blockDef.texturesInside.front,
                 blockDef.texturesInside.right,  blockDef.texturesInside.back>>
      sidesRotation == 4 - rotation
      Face(texture, vi, textureRotation) ==
        [texture |-> texture, vi |-> vi, textureRotation |-> textureRotation]
  IN  <<Face(blockDef.texturesOutside.top,    <<4, 5, 6, 7>>, rotation),
        Face(blockDef.texturesInside.top,     <<7, 6, 5, 4>>, rotation),
        Face(blockDef.texturesOutside.bottom, <<3, 2, 1, 0>>, 4 - rotation),
        Face(blockDef.texturesInside.bottom,  <<0, 1, 2, 3>>, 4 - rotation),
        Face(sides[((0 + sidesRotation) % 4) + 1],     <<4, 7, 3, 0>>, 0),
        Face(sides[((1 + sidesRotation) % 4) + 1],     <<7, 6, 2, 3>>, 0),
        Face(sides[((2 + sidesRotation) % 4) + 1],     <<6, 5, 1, 2>>, 0),
        Face(sides[((3 + sidesRotation) % 4) + 1],     <<5, 4, 0, 1>>, 0),
        Face(sides[((0 + sidesRotation) % 4) + 4 + 1], <<7, 4, 0, 3>>, 0),
        Face(sides[((1 + sidesRotation) % 4) + 4 + 1], <<6, 7, 3, 2>>, 0),
        Face(sides[((2 + sidesRotation) % 4) + 4 + 1], <<5, 6, 2, 1>>, 0),
        Face(sides[((3 + sidesRotation) % 4) + 4 + 1], <<4, 5, 1, 0>>, 0)>>

RECURSIVE AddFaces(_, _, _, _, _, _)
AddFaces(buffers, m, atlas, vertices, faces, g) ==
  IF faces = <<>> THEN buffers
  ELSE AddFaces(addFace(buffers, m, atlas, vertices, Head(faces), g),
                m, atlas, vertices, Tail(faces), g)

\* [&](const BlockInstance& block)
addBlock(buffers, m, atlas, block, g) ==
  LET blockDef == BlockDefAt(m, block.blockDefIndex, g)
  IN  AddFaces(buffers, m, atlas, BlockVertices(block, blockDef),
               BlockFaces(blockDef, Flags_rotation(block.flags)), g)

BlockFaults(m, block) ==
  IF BlockDefInRange(m, block.blockDefIndex) THEN {} ELSE {"blockDef"}

\* makeModelVertex: the coordinates of a vertex of the model under the
\* transformation of the instance.  The product of the matrices is not
\* computed: a vertex is kept as the coordinates and the parameters of the
\* transformation it went through.
makeModelVertex(model, modelData, index, uv) ==
  [coords    |-> modelData.vertices[index + 1],
   transform |-> [x |-> model.x, y |-> model.y,
                  xOffset |-> model.xOffset, yOffset |-> model.yOffset,
                  verticalOffset |-> model.verticalOffset,
                  scale |-> model.scale,
                  rotationX |-> model.rotationX,
                  rotationY |-> model.rotationY,
                  rotationZ |-> model.rotationZ,
                  matrix |-> modelData.transformationMatrix],
   uv        |-> uv]

\* One face of a model: a triangle or a quad on the masked or the solid
\* buffer of the models.  getModelTexCoords takes the texture as a uint16_t.
addModelFace(buffers, w, atlas, model, modelData, face, g) ==
  LET uvs  == getTexCoords(face.mTexture.lo, atlas, w.mTextureDefs, g)
      v(k) == makeModelVertex(model, modelData, face.mIndices[k + 1], uvs[k + 1])
      add(buffer) ==
        IF face.mType = "Triangle"
        THEN addTriangle(buffer, v(0), v(1), v(2))
        ELSE addQuad(buffer, v(0), v(1), v(2), v(3))
  IN  IF VecAt(w.mTextureDefs, Amount(face.mTexture)).isMasked
      THEN [buffers EXCEPT !.modelsBufferMasked = add(@)]
      ELSE [buffers EXCEPT !.modelsBuffer = add(@)]

RECURSIVE AddModelFaces(_, _, _, _, _, _, _)
AddModelFaces(buffers, w, atlas, model, modelData, faces, g) ==
  IF faces = <<>> THEN buffers
  ELSE AddModelFaces(addModelFace(buffers, w, atlas, model, modelData, Head(faces), g),
                     w, atlas, model, modelData, Tail(faces), g)

\* [&](const ModelInstance& model)
addModel(buffers, w, atlas, model, models, g) ==
  AddModelFaces(buffers, w, atlas, model, models[model.modelName],
                models[model.modelName].faces, g)

\* MeshBufferData::createMesh: the buffers as they are handed to OpenGL, and
\* mNumIndices = uint16_t(mIndexBuffer.size()).
createMesh(buffer) ==
  [mVbo        |-> buffer.mVertexBuffer,
   mEbo        |-> buffer.mIndexBuffer,
   mNumIndices |-> Len(buffer.mIndexBuffer) % 65536]

\* MeshBufferData::hasData
hasData(buffer) == buffer.mVertexBuffer # <<>> /\ buffer.mIndexBuffer # <<>>

\* MeshBufferData::append: the vertices of `other` after those of `buffer`,
\* and its indices moved by uint16_t(mVertexBuffer.size()).
append(buffer, other) ==
  [mVertexBuffer |-> buffer.mVertexBuffer \o other.mVertexBuffer,
   mIndexBuffer  |-> buffer.mIndexBuffer
                     \o [k \in 1..Len(other.mIndexBuffer) |->
                           (other.mIndexBuffer[k]
                            + (Len(buffer.mVertexBuffer) % 65536)) % 65536],
   calls         |-> buffer.calls \o other.calls]

createMaskedMesh(solidFaces, maskedFaces) ==
  IF hasData(maskedFaces)
  THEN [mMaskedFacesStart |-> Len(solidFaces.mIndexBuffer) % 65536,
        mMaskedFacesCount |-> Len(maskedFaces.mIndexBuffer) % 65536,
        mMesh             |-> createMesh(append(solidFaces, maskedFaces))]
  ELSE [mMaskedFacesStart |-> 0,
        mMaskedFacesCount |-> 0,
        mMesh             |-> createMesh(solidFaces)]

----------------------------------------------------------------------------
(* buildMeshes as a process: the terrain loop, one step for every item,    *)
(* and the meshes.                                                         *)

MeshLocals(worldTextures, modelTextures, models) ==
  [worldTextures      |-> worldTextures,
   modelTextures      |-> modelTextures,
   models             |-> models,
   terrainBuffer      |-> EmptyBuffer,
   blocksBuffer       |-> EmptyBuffer,
   blocksBufferMasked |-> EmptyBuffer,
   modelsBuffer       |-> EmptyBuffer,
   modelsBufferMasked |-> EmptyBuffer,
   item               |-> 1,        \* the item the loop is at
   terrainAtCalls     |-> {},       \* history: the arguments of terrainAt for drawn cells
   meshes             |-> None,
   faults             |-> {},       \* history: the kinds of reads outside of memory
   exit               |-> "running"]

\* The terrain loop.
meshTerrain ==
  /\ pc = "mesh_terrain"
  /\ \E g \in GarbageWords :
       LET faults == TerrainFaults(map, loc.worldTextures, g)
       IN  /\ faults = {} => g = W(0, 0)
           /\ AfterLookups(faults, "mesh_items",
                [loc EXCEPT !.terrainBuffer =
                   AddTerrainQuads(@, SortedUnique(TerrainCellsDrawn(map, g)),
                                   map, loc.worldTextures, g),
                            !.terrainAtCalls =
                   UNION {TerrainAtCalls(i % MAP_SIZE, i \div MAP_SIZE) :
                            i \in TerrainCellsDrawn(map, g)}])
  /\ UNCHANGED <<wadFile, mapFile, f, wad, map, oWad, oMap, caller, app>>

InMeshItems(kind) ==
  /\ pc = "mesh_items"
  /\ loc.item <= Len(map.mItems)
  /\ map.mItems[loc.item].kind = kind

meshExtraTerrain ==
  /\ InMeshItems("ExtraTerrainTile")
  /\ \E g \in GarbageWords :
       LET tile   == map.mItems[loc.item]
           faults == ExtraTerrainFaults(map, loc.worldTextures, tile, g)
       IN  /\ faults = {} => g = W(0, 0)
           /\ AfterLookups(faults, "mesh_items",
                [loc EXCEPT !.item = @ + 1,
                            !.terrainBuffer =
                               addExtraTerrain(@, map, loc.worldTextures, tile, g)])
  /\ UNCHANGED <<wadFile, mapFile, f, wad, map, oWad, oMap, caller, app>>

meshBlock ==
  /\ InMeshItems("BlockInstance")
  /\ \E g \in GarbageWords :
       LET block  == map.mItems[loc.item]
           faults == BlockFaults(map, block)
       IN  /\ faults = {} => g = W(0, 0)
           /\ AfterLookups(faults, "mesh_items",
                [addBlock(loc, map, loc.worldTextures, block, g)
                   EXCEPT !.item = @ + 1])
  /\ UNCHANGED <<wadFile, mapFile, f, wad, map, oWad, oMap, caller, app>>

meshModel ==
  /\ InMeshItems("ModelInstance")
  /\ pc' = "mesh_items"
  /\ loc' = [addModel(loc, wad, loc.modelTextures, map.mItems[loc.item],
                      loc.models, W(0, 0))
               EXCEPT !.item = @ + 1]
  /\ UNCHANGED <<wadFile, mapFile, f, wad, map, oWad, oMap, caller, app>>

\* mTerrainMesh, mBlocksMesh and mModelsMesh.
meshCreate ==
  /\ pc = "mesh_items"
  /\ loc.item > Len(map.mItems)
  /\ pc' = "mesh_done"
  /\ loc' = [loc EXCEPT
       !.exit = "end",
       !.meshes = Some(
          [mTerrainMesh |-> createMesh(loc.terrainBuffer),
           mBlocksMesh  |-> createMaskedMesh(loc.blocksBuffer, loc.blocksBufferMasked),
           mModelsMesh  |-> createMaskedMesh(loc.modelsBuffer, loc.modelsBufferMasked)])]
  /\ UNCHANGED <<wadFile, mapFile, f, wad, map, oWad, oMap, caller, app>>

buildMeshes ==
  \/ meshTerrain
  \/ meshExtraTerrain
  \/ meshBlock
  \/ meshModel
  \/ meshCreate

----------------------------------------------------------------------------
(* The maps buildMeshes is run on.                                         *)

\* The record a decoder makes of the bytes `raw` laid out as `ops`.
Decoded(raw, ops) == RunOps(Bytes(raw), Stream(0), ops, W(0, 0)).bytes

TextureDefOf(page, flags) ==
  readTextureDef(Decoded(TextureDefBytes(page, flags), TextureDefOps))

\* Texture definitions 0 to 8 of the maps: 1 is on page 2 and is not
\* masked, 2 is on page 1 and is masked; no two of them are on the same page
\* with the same flags.
MeshTextureDefs ==
  Vec(<<TextureDefOf(0, 0), TextureDefOf(2, 0), TextureDefOf(1, 1),
        TextureDefOf(3, 0), TextureDefOf(4, 0), TextureDefOf(3, 1),
        TextureDefOf(4, 1), TextureDefOf(0, 1), TextureDefOf(1, 0)>>,
      9, GarbageTextureDef(W(0, 0)))

BlockDefOf(inside, outside, heights) ==
  [texturesInside  |-> [front |-> inside[1], top |-> inside[2], left |-> inside[3],
                        back |-> inside[4], right |-> inside[5], bottom |-> inside[6]],
   texturesOutside |-> [back |-> outside[1], top |-> outside[2], left |-> outside[3],
                        front |-> outside[4], right |-> outside[5], bottom |-> outside[6]],
   vertexCoordinatesY |-> heights]

\* Block definition 0 has no texture, 1 has texture 1 on its 12 faces, and 2
\* has the textures 0, 1, 2 and 9, which is no texture definition of the map,
\* and its eight heights differ.  3 has the masked texture 2 on its 12 faces,
\* and 4 has eight textures on its eight sides and none above and below.
MeshBlockDefs ==
  Vec(<<readBlockDef(Decoded(BlockDefBytes(0), BlockDefOps)),
        readBlockDef(Decoded(BlockDefBytes(1), BlockDefOps)),
        BlockDefOf(<<1, 2, 0, 9, 1, 2>>, <<2, 0, 1, 2, 9, 1>>,
                   <<0, 8, 16, 24, -256, -248, -240, -232>>),
        BlockDefOf(<<2, 2, 2, 2, 2, 2>>, <<2, 2, 2, 2, 2, 2>>,
                   <<0, 0, 0, 0, -256, -256, -256, -256>>),
        BlockDefOf(<<8, 0, 7, 2, 1, 0>>, <<6, 0, 3, 4, 5, 0>>,
                   <<0, 8, 16, 24, -256, -248, -240, -232>>)>>,
      5, GarbageBlockDef(W(0, 0)))

\* The block definition indices of the cells and items: 7 is outside of the
\* five block definitions.
MeshBlockDefIndices == {0, 1, 2, 3, 4, 7}

\* The cells that are given a block definition: the four corners of the
\* grid, and the cell (32, 32).
TerrainSpots == {0, MAP_SIZE - 1, 32 + 32 * MAP_SIZE,
                 (MAP_SIZE - 1) * MAP_SIZE, MAP_SIZE * MAP_SIZE - 1}

\* A grid with the block definition d, the rotation r and the vertical offset
\* 256 * r in the cell c; the cells after c, a row after c, and after that
\* one have the vertical offsets 100, 200 and 300.
TerrainWith(c, d, r) ==
  LET around == {c + 1, c + MAP_SIZE, c + MAP_SIZE + 1}
                  \cap (0..(MAP_SIZE * MAP_SIZE - 1))
  IN  [i \in {c} \cup around |->
         IF i = c
         THEN [blockDefIndex |-> W(0, d), flags |-> 16 * r + 5,
               verticalOffset |-> 256 * r]
         ELSE [blockDefIndex |-> W(0, 0), flags |-> 0,
               verticalOffset |-> IF i = c + 1 THEN 100
                                  ELSE IF i = c + MAP_SIZE THEN 200 ELSE 300]]

MeshTerrains ==
  {TerrainWith(c, d, r) : c \in TerrainSpots, d \in MeshBlockDefIndices, r \in 0..3}
  \cup {(0 :> [blockDefIndex |-> W(0, 1), flags |-> 0, verticalOffset |-> 0])
        @@ TerrainWith(MAP_SIZE + 1, 2, 1)}

MeshBlock(d, r) ==
  [kind |-> "BlockInstance", x |-> 5, y |-> 6, blockDefIndex |-> W(0, d),
   flags |-> 16 * r + 3, verticalOffset |-> 512 - 100 * r,
   vertexOffsetsY |-> <<1, 2, 3, 4, -1, -2, -3, -4>>]

MeshExtraTerrain(d, r) ==
  [kind |-> "ExtraTerrainTile", x |-> 3, y |-> 4, blockDefIndex |-> W(0, d),
   flags |-> 16 * r + 64, vertexCoordinatesY |-> <<0, 256, 512, -256>>]

MeshModel(name) ==
  [kind |-> "ModelInstance", x |-> 10, y |-> 11, xOffset |-> 7, yOffset |-> 9,
   verticalOffset |-> 128, rotationX |-> 16384, rotationY |-> 32768,
   rotationZ |-> 49152, modelName |-> name, scale |-> 256]

MeshItems ==
  {MeshBlock(d, r) : d \in {2, 4}, r \in 0..3}
  \cup {MeshBlock(0, 3), MeshBlock(1, 0), MeshBlock(1, 1), MeshBlock(3, 2),
        MeshBlock(7, 0)}
  \cup {MeshExtraTerrain(1, r) : r \in 0..3}
  \cup {MeshExtraTerrain(0, 0), MeshExtraTerrain(7, 3)}
  \cup {MeshModel(NameA), MeshModel(NameB)}

\* A bound of the model: the maps have up to this many items.
MaxMeshItems == 2

MeshMaps ==
  {[mTextureDefs |-> MeshTextureDefs, mBlockDefs |-> MeshBlockDefs,
    mpTerrain |-> t, mItems |-> <<>>] : t \in MeshTerrains}
  \cup {[mTextureDefs |-> MeshTextureDefs, mBlockDefs |-> MeshBlockDefs,
         mpTerrain |-> <<>>, mItems |-> items] :
          items \in UNION {[1..n -> MeshItems] : n \in 0..MaxMeshItems}}

\* The archive of these maps: the texture definitions 0 (page 0) and 1
\* (page 1, masked) of its models.
MeshWad ==
  [TestWad EXCEPT
     !.mTextureDefs = Vec(<<TextureDefOf(0, 0), TextureDefOf(1, 1)>>, 2,
                          GarbageTextureDef(W(0, 0)))]

\* The models as loadModel has read them: "A" has a triangle and a quad, "B"
\* a masked triangle.
MeshModels ==
  (NameA :> [vertices |-> <<[x |-> 0, y |-> 0, z |-> 0], [x |-> 256, y |-> 0, z |-> 0],
                            [x |-> 256, y |-> 256, z |-> 0], [x |-> 0, y |-> 256, z |-> 0]>>,
             faces |-> <<[mTexture |-> W(0, 0), mType |-> "Triangle",
                          mIndices |-> <<0, 1, 2, 0>>],
                         [mTexture |-> W(0, 0), mType |-> "Quad",
                          mIndices |-> <<3, 2, 1, 0>>]>>,
             transformationMatrix |-> <<512, 0, 0, 0, 512, 0, 0, 0, 512, 0, 0, 0>>])
  @@ (NameB :> [vertices |-> <<[x |-> 0, y |-> 0, z |-> 0], [x |-> 0, y |-> 0, z |-> 256],
                               [x |-> 0, y |-> 256, z |-> 256]>>,
                faces |-> <<[mTexture |-> W(0, 1), mType |-> "Triangle",
                             mIndices |-> <<2, 1, 0, 0>>]>>,
                transformationMatrix |-> <<512, 0, 0, 0, 512, 0, 0, 0, 512, 256, 0, 0>>])

\* loadUsedModels and the atlas of the models, as the constructor has them
\* when it calls buildMeshes.
MeshModelsOf(m) == [n \in ModelsUsed(m) |-> MeshModels[n]]

MeshModelTextures(m) ==
  TextureAtlas(determineModelTexturePagesUsed(MeshWad,
    UNION {{MeshModels[n].faces[k].mTexture : k \in 1..Len(MeshModels[n].faces)} :
             n \in ModelsUsed(m)}))

InitMesh ==
  /\ wadFile = NoFile
  /\ mapFile = NoFile
  /\ f = Stream(0)
  /\ wad = MeshWad
  /\ map \in MeshMaps
  /\ oWad = Some(MeshWad)
  /\ oMap = Some(map)
  /\ caller = "none"
  /\ app = NoApp
  /\ pc = "mesh_terrain"
  /\ loc = MeshLocals(TextureAtlas(determineWorldTexturePagesUsed(map)),
                      MeshModelTextures(map), MeshModelsOf(map))

SpecMesh == InitMesh /\ [][buildMeshes]_vars

----------------------------------------------------------------------------
(* Properties of buildMeshes.                                              *)

\* The terrain loop has run and no item has been looked at.
AfterTerrainLoop == pc = "mesh_items" /\ loc.item = 1

\* Every cell names a block definition of the map.
CellsInRange ==
  /\ BlockDefInRange(map, ZeroTile.blockDefIndex)
  /\ \A i \in DOMAIN map.mpTerrain : BlockDefInRange(map, map.mpTerrain[i].blockDefIndex)

\* The inside bottom texture of a block definition of the map.
FloorTexture(index) == VecAt(map.mBlockDefs, Amount(index)).texturesInside.bottom

\* The cells with a floor: the cells that were not written have none.
CellsWithFloor == {i \in DOMAIN map.mpTerrain : FloorTexture(map.mpTerrain[i].blockDefIndex) # 0}

\* The corners of the cell i, in the order of a quad, as world positions
\* times 256.
CellCorners(i) ==
  LET x == i % MAP_SIZE
      y == i \div MAP_SIZE
  IN  <<<<256 * (x - 32), 256 * (y - 32)>>, <<256 * (x - 31), 256 * (y - 32)>>,
        <<256 * (x - 31), 256 * (y - 31)>>, <<256 * (x - 32), 256 * (y - 31)>>>>

\* C13: after the terrain loop over a grid whose cells all name a block
\* definition, the terrain buffer is empty when the inside bottom texture of
\* every cell's block definition is 0, and holds 4 vertices and 6 indices,
\* on the corners of that cell, when exactly one cell has an inside bottom
\* texture that is not 0 and is a texture definition of the map.
C13_TerrainQuads ==
  (AfterTerrainLoop /\ CellsInRange /\ FloorTexture(ZeroTile.blockDefIndex) = 0) =>
     /\ CellsWithFloor = {} =>
          /\ loc.terrainBuffer.mVertexBuffer = <<>>
          /\ loc.terrainBuffer.mIndexBuffer = <<>>
     /\ \A c \in CellsWithFloor :
          (CellsWithFloor = {c}
             /\ FloorTexture(map.mpTerrain[c].blockDefIndex) < map.mTextureDefs.size) =>
            /\ Len(loc.terrainBuffer.mVertexBuffer) = 4
            /\ Len(loc.terrainBuffer.mIndexBuffer) = 6
            /\ \A k \in 1..4 :
                 /\ loc.terrainBuffer.mVertexBuffer[k].x = CellCorners(c)[k][1]
                 /\ loc.terrainBuffer.mVertexBuffer[k].z = CellCorners(c)[k][2]
            /\ \A k \in 1..6 : loc.terrainBuffer.mIndexBuffer[k] \in 0..3

\* C13 witness: the cell (63, 63) alone has a floor, and the terrain buffer
\* holds its quad.
C13_Witness ==
  /\ AfterTerrainLoop
  /\ CellsInRange
  /\ CellsWithFloor = {MAP_SIZE * MAP_SIZE - 1}
  /\ Len(loc.terrainBuffer.mIndexBuffer) = 6
  /\ loc.terrainBuffer.mVertexBuffer[3].x = 256 * 32
  /\ loc.terrainBuffer.mVertexBuffer[3].z = 256 * 32

\* The 12 face textures of a block definition.
FaceTextures(blockDef) ==
  {blockDef.texturesInside[s] : s \in DOMAIN blockDef.texturesInside}
  \cup {blockDef.texturesOutside[s] : s \in DOMAIN blockDef.texturesOutside}

\* The item the loop is at is a block instance on a block definition of the map.
BlockNext ==
  /\ InMeshItems("BlockInstance")
  /\ BlockDefInRange(map, map.mItems[loc.item].blockDefIndex)

BlockDefNext == VecAt(map.mBlockDefs, Amount(map.mItems[loc.item].blockDefIndex))

BlockQuadsAdded ==
  ((Len(loc'.blocksBuffer.mVertexBuffer) - Len(loc.blocksBuffer.mVertexBuffer))
   + (Len(loc'.blocksBufferMasked.mVertexBuffer)
      - Len(loc.blocksBufferMasked.mVertexBuffer))) \div 4

\* C15, as stated: the step over a block instance adds at most 10 quads to
\* the solid and the masked buffer of the blocks together.
C15_AtMostTenQuads == [][BlockNext => BlockQuadsAdded <= 10]_vars

\* C15, amended: the step over a block instance adds at most 12 quads to the
\* solid and the masked buffer of the blocks together, one per face of the
\* two tops, the two bottoms and the eight sides.
C15_AtMostTwelveQuads == [][BlockNext => BlockQuadsAdded <= 12]_vars

\* C15 witness: a block instance of 12 masked faces was built into 12 quads.
C15_Witness ==
  /\ pc = "mesh_done"
  /\ map.mItems = <<MeshBlock(3, 2)>>
  /\ Len(loc.blocksBufferMasked.mVertexBuffer) = 4 * 12
  /\ loc.blocksBuffer = EmptyBuffer

\* The vertices and the indices a sequence of faces leaves in a buffer when
\* every face of 4 vertices adds base + {0, 3, 1, 1, 3, 2} and every face of 3
\* vertices base + {0, 2, 1}, base being the number of vertices before it.
RECURSIVE FacesReplayed(_)
FacesReplayed(calls) ==
  IF calls = <<>> THEN [vertices |-> <<>>, indices |-> <<>>]
  ELSE LET before == FacesReplayed(SubSeq(calls, 1, Len(calls) - 1))
           face   == calls[Len(calls)]
           base   == Len(before.vertices)
       IN  [vertices |-> before.vertices \o face,
            indices  |-> before.indices
                         \o (IF Len(face) = 4
                             THEN <<base, base + 3, base + 1, base + 1, base + 3, base + 2>>
                             ELSE <<base, base + 2, base + 1>>)]

SplitAsReplayed(buffer) ==
  /\ buffer.mVertexBuffer = FacesReplayed(buffer.calls).vertices
  /\ buffer.mIndexBuffer = FacesReplayed(buffer.calls).indices

C19_MakeVertex ==
  /\ (AfterTerrainLoop /\ CellsInRange /\ FloorTexture(ZeroTile.blockDefIndex) = 0) =>
       \A c \in CellsWithFloor :
         CellsWithFloor = {c} =>
           /\ 256 * (c % MAP_SIZE) = loc.terrainBuffer.mVertexBuffer[1].x + 256 * 32
           /\ 256 * (c \div MAP_SIZE) = loc.terrainBuffer.mVertexBuffer[1].z + 256 * 32
           /\ map.mpTerrain[c].verticalOffset = 0 - loc.terrainBuffer.mVertexBuffer[1].y
  /\ (pc = "mesh_done" /\ Len(map.mItems) = 1 /\ loc.faults = {}
        /\ map.mItems[1].kind = "ExtraTerrainTile"
        /\ loc.terrainBuffer.mVertexBuffer # <<>>) =>
       LET tile == map.mItems[1]
           at   == <<<<tile.x, tile.y>>, <<tile.x + 1, tile.y>>,
                     <<tile.x + 1, tile.y + 1>>, <<tile.x, tile.y + 1>>>>
       IN  \A k \in 1..4 :
             /\ 256 * at[k][1] = loc.terrainBuffer.mVertexBuffer[k].x + 256 * 32
             /\ 256 * at[k][2] = loc.terrainBuffer.mVertexBuffer[k].z + 256 * 32
             /\ tile.vertexCoordinatesY[k] = 0 - loc.terrainBuffer.mVertexBuffer[k].y

\* C19 witness: the cell (32, 32) with the vertical offset 0 has its first
\* vertex at (0, 0, 0).
C19_Witness ==
  /\ AfterTerrainLoop
  /\ CellsWithFloor = {32 + 32 * MAP_SIZE}
  /\ map.mpTerrain[32 + 32 * MAP_SIZE].verticalOffset = 0
  /\ loc.terrainBuffer.mVertexBuffer[1].x = 0
  /\ loc.terrainBuffer.mVertexBuffer[1].y = 0
  /\ loc.terrainBuffer.mVertexBuffer[1].z = 0

\* C19 witness of the scale: a cell with the vertical offset 256 has its first
\* vertex one unit below 0.
C19_WitnessDown ==
  /\ AfterTerrainLoop
  /\ CellsWithFloor = {32 + 32 * MAP_SIZE}
  /\ map.mpTerrain[32 + 32 * MAP_SIZE].verticalOffset = 256
  /\ loc.terrainBuffer.mVertexBuffer[1].y = 0 - 256

----------------------------------------------------------------------------
(* The layout of the texture definition records.                           *)

\* The table of texture definitions is read next, and the file holds
\* `size` bytes for each of its records.
TextureDefsNext(size) ==
  /\ pc = "map_textureDefs"
  /\ pc' = "map_skipAnimations"
  /\ Good(f)
  /\ Amount(loc.numTextureDefs) >= 1
  /\ f.pos + size * Amount(loc.numTextureDefs) <= FileLen(mapFile)

\* The texture definition a record b holds when the fourth UV pair is at the
\* offset uv3At and the flags follow it: the first UV pair at 0, the page at
\* 2, the second UV pair at 4, the third at 8.
TextureDefInLayout(b, uv3At) ==
  [uvs         |-> <<[u |-> b[1], v |-> b[2]], [u |-> b[5], v |-> b[6]],
                     [u |-> b[9], v |-> b[10]],
                     [u |-> b[uv3At + 1], v |-> b[uv3At + 2]]>>,
   bitmapIndex |-> b[3] + 256 * b[4],
   isMasked    |-> b[uv3At + 3] % 2 = 1]

\* The step reads records of `size` bytes in that layout, one after the other.
TextureDefsReadInLayout(size, uv3At) ==
  TextureDefsNext(size) =>
    /\ map'.mTextureDefs.size = Amount(loc.numTextureDefs)
    /\ \A k \in 0..(Amount(loc.numTextureDefs) - 1) :
         VecAt(map'.mTextureDefs, k)
           = TextureDefInLayout(FileBytes(mapFile, f.pos + size * k, size), uv3At)
    /\ f'.pos = f.pos + size * Amount(loc.numTextureDefs)

\* C20, as stated: a texture definition record is the first UV pair, the
\* page halfword, the second UV pair, 2 reserved bytes, the third UV pair, 2
\* reserved halfwords, the fourth UV pair and the flags halfword, whose low
\* bit is isMasked.
C20_TwoReservedHalfwords == [][TextureDefsReadInLayout(18, 14)]_vars

\* C20, amended: a texture definition record is the first UV pair, the page
\* halfword, the second UV pair, 2 reserved bytes, the third UV pair, 1
\* reserved halfword, the fourth UV pair and the flags halfword, whose low bit
\* is isMasked.
C20_OneReservedHalfword == [][TextureDefsReadInLayout(16, 12)]_vars

\* C20 witness: two texture definitions were read, the second one masked and
\* on the page 1, with the fourth UV pair (0, 63).
C20_Witness ==
  /\ pc = "map_skipAnimations"
  /\ map.mTextureDefs.size = 2
  /\ Len(map.mTextureDefs.elems) = 2
  /\ VecAt(map.mTextureDefs, 1).isMasked
  /\ VecAt(map.mTextureDefs, 1).bitmapIndex = 1
  /\ ~VecAt(map.mTextureDefs, 0).isMasked
  /\ VecAt(map.mTextureDefs, 1).uvs[4] = [u |-> 0, v |-> 63]
  /\ VecAt(map.mTextureDefs, 1).uvs[3] = [u |-> 63, v |-> 63]

----------------------------------------------------------------------------
(* The texture atlases of MapRenderer::MapRenderer: the pages used, the    *)
(* image of WadData::buildTextureAtlas and the table of TextureAtlas, for  *)
(* the textures of the world and then for those of the models.             *)

\* The pixels of a page that are followed: (row, col) pairs.
SamplePoints == {<<0, 0>>, <<0, 255>>, <<1, 0>>, <<128, 7>>, <<255, 255>>}

\* loadPalette: entry k is the 4 bytes of the blob at 4 * k, with the alpha
\* 0 for the entry 0 and 255 for the others.
loadPalette(w, k) ==
  [r |-> BlobByte(w, 4 * k), g |-> BlobByte(w, 4 * k + 1),
   b |-> BlobByte(w, 4 * k + 2), a |-> IF k = 0 THEN 0 ELSE 255]

\* *pSourceData of the page `bitmapIndex` at (row, col); outside of the
\* bitmaps or of the blob it is whatever memory holds there.
SourceData(w, bitmapIndex, row, col, g) ==
  IF bitmapIndex >= w.mBitmaps.size THEN g.lo % 256
  ELSE LET at == Amount(VecAt(w.mBitmaps, bitmapIndex).offset)
                 + col + row * TEXTURE_PAGE_SIZE
       IN  IF InBlob(w, at, 1) THEN BlobByte(w, at) ELSE g.lo % 256

\* WadData::buildTextureAtlas(pages): the image and, of its pixels, those
\* written from the sample points of every page, by their index.
buildTextureAtlas_SlotOfPage(w, pages, g) ==
  LET numPages   == Len(pages)
      atlasWidth == TEXTURE_PAGE_SIZE * numPages
      written    == {[i |-> i, row |-> s[1], col |-> s[2]] :
                       i \in 0..(numPages - 1), s \in SamplePoints}
      dest(x)    == pages[x.i + 1] * TEXTURE_PAGE_SIZE + x.col + x.row * atlasWidth
  IN  [width  |-> atlasWidth,
       height |-> TEXTURE_PAGE_SIZE,
       size   |-> TEXTURE_PAGE_SIZE * TEXTURE_PAGE_SIZE * numPages,
       pixels |-> [d \in {dest(x) : x \in written} |->
                     LET x == CHOOSE y \in written : dest(y) = d
                     IN  loadPalette(w, SourceData(w, pages[x.i + 1], x.row, x.col, g))]]
buildTextureAtlas(w, pages, g) ==
  LET numPages   == Len(pages)
      atlasWidth == TEXTURE_PAGE_SIZE * numPages
      written    == {[i |-> i, row |-> s[1], col |-> s[2]] :
                       i \in 0..(numPages - 1), s \in SamplePoints}
      dest(x)    == x.i * TEXTURE_PAGE_SIZE + x.col + x.row * atlasWidth
  IN  [width  |-> atlasWidth,
       height |-> TEXTURE_PAGE_SIZE,
       size   |-> TEXTURE_PAGE_SIZE * TEXTURE_PAGE_SIZE * numPages,
       pixels |-> [d \in {dest(x) : x \in written} |->
                     LET x == CHOOSE y \in written : dest(y) = d
                     IN  loadPalette(w, SourceData(w, pages[x.i + 1], x.row, x.col, g))]]

\* The faces of the models, model after model in the order the
\* unordered_map is iterated in.
RECURSIVE FacesInOrder(_, _)
FacesInOrder(models, order) ==
  IF order = <<>> THEN <<>>
  ELSE models[Head(order)].faces \o FacesInOrder(models, Tail(order))

\* determineModelTexturePagesUsed on models that are kept face by face.
ModelTexturePagesUsed(w, faces) ==
  SortAndUnique([k \in 1..Len(faces) |->
                   VecAt(w.mTextureDefs, Amount(faces[k].mTexture)).bitmapIndex])

\* The orders a map of these names may be iterated in.
IterationOrders(names) ==
  {order \in [1..Cardinality(names) -> names] :
     \A i, j \in 1..Cardinality(names) : i # j => order[i] # order[j]}

\* The locals of the constructor over its two atlases.  `built` is history:
\* every atlas that was built, with the pages as they were found.
AtlasLocals(inputs) ==
  [inputs |-> inputs, run |-> 1, which |-> "world", models |-> <<>>,
   found |-> <<>>, pagesUsed |-> <<>>, image |-> None, built |-> <<>>,
   faults |-> {}, exit |-> "none"]

\* The map of a run: its texture definitions.
AtlasMapOf(input) ==
  [EmptyMap EXCEPT !.mTextureDefs =
     Vec([k \in 1..Len(input.defs) |-> TextureDefOf(input.defs[k], 0)],
         Len(input.defs), GarbageTextureDef(W(0, 0)))]

\* determineWorldTexturePagesUsed(map), or loadUsedModels and
\* determineModelTexturePagesUsed(models, wad).
atlasPages ==
  /\ pc = "atlas_pages"
  /\ IF loc.which = "world"
     THEN /\ pc' = "atlas_image"
          /\ loc' = [loc EXCEPT !.found = PagesPushed(map.mTextureDefs),
                                !.pagesUsed = determineWorldTexturePagesUsed(map)]
     ELSE \E order \in IterationOrders(DOMAIN loc.models) :
            LET faces == FacesInOrder(loc.models, order)
            IN  IF \A k \in 1..Len(faces) : TextureDefAtInRange(wad, faces[k].mTexture)
                THEN /\ pc' = "atlas_image"
                     /\ loc' = [loc EXCEPT
                          !.found = [k \in 1..Len(faces) |->
                                       VecAt(wad.mTextureDefs,
                                             Amount(faces[k].mTexture)).bitmapIndex],
                          !.pagesUsed = ModelTexturePagesUsed(wad, faces)]
                ELSE /\ pc' = "atlas_thrown"
                     /\ loc' = [loc EXCEPT !.exit = "out_of_range"]
  /\ UNCHANGED <<wadFile, mapFile, f, wad, map, oWad, oMap, caller, app>>

\* wad.buildTextureAtlas(pagesUsed)
atlasImage ==
  /\ pc = "atlas_image"
  /\ \E g \in (IF AtlasFaults(wad, loc.pagesUsed) = {} THEN {W(0, 0)} ELSE GarbageWords) :
       AfterLookups(AtlasFaults(wad, loc.pagesUsed), "atlas_table",
                    [loc EXCEPT !.image = Some(buildTextureAtlas(wad, loc.pagesUsed, g))])
  /\ UNCHANGED <<wadFile, mapFile, f, wad, map, oWad, oMap, caller, app>>

\* TextureAtlas(textureAtlasImage, pagesUsed), and what the constructor goes
\* on with: the models after the world, and in the model the next
\* construction, over another map of the same archive.
atlasTable ==
  /\ pc = "atlas_table"
  /\ LET atlas == [TextureAtlas(loc.pagesUsed) EXCEPT !.mWidth = loc.image.value.width]
         done  == [loc EXCEPT !.built = Append(@, [run |-> loc.run, which |-> loc.which,
                                                   found |-> loc.found,
                                                   pagesUsed |-> loc.pagesUsed,
                                                   image |-> loc.image.value,
                                                   atlas |-> atlas,
                                                   faults |-> loc.faults])]
     IN  IF loc.which = "world"
         THEN /\ pc' = "atlas_pages"
              /\ loc' = [done EXCEPT !.which = "model",
                                     !.models = loc.inputs[loc.run].models]
              /\ map' = map
         ELSE IF loc.run < Len(loc.inputs)
         THEN /\ pc' = "atlas_pages"
              /\ loc' = [done EXCEPT !.which = "world", !.run = loc.run + 1,
                                     !.models = <<>>]
              /\ map' = AtlasMapOf(loc.inputs[loc.run + 1])
         ELSE /\ pc' = "atlas_done"
              /\ loc' = [done EXCEPT !.exit = "end"]
              /\ map' = map
  /\ UNCHANGED <<wadFile, mapFile, f, wad, oWad, oMap, caller, app>>

buildAtlases == atlasPages \/ atlasImage \/ atlasTable

----------------------------------------------------------------------------
(* The archive and the maps the atlases are built from.                    *)

\* The palette: the colour k is (k, 255 - k, k / 2, 7).
AtlasPaletteBytes == [j \in 1..(4 * 256) |->
                        LET k == (j - 1) \div 4
                        IN  <<k, 255 - k, k \div 2, 7>>[((j - 1) % 4) + 1]]

\* A page of 256 * 256 bytes: b in the first row, b + 1 and b + 2 in turn in
\* the rows up to the last, b + 3 in the last row and b + 4 in its last pixel.
AtlasPageRuns(b) ==
  <<Run(<<b>>, TEXTURE_PAGE_SIZE),
    Run(<<b + 1, b + 2>>, (TEXTURE_PAGE_SIZE \div 2) * (TEXTURE_PAGE_SIZE - 2)),
    Run(<<b + 3>>, TEXTURE_PAGE_SIZE - 1),
    Run(<<b + 4>>, 1)>>

\* The blob: the palette, then the bitmaps of the pages 1, 2 and 0, which
\* start with the bytes 10, 20 and 0.
AtlasWadFile ==
  <<Run(AtlasPaletteBytes, 1)>> \o AtlasPageRuns(10) \o AtlasPageRuns(20)
  \o AtlasPageRuns(0)

AtlasPageOffset(page) ==
  4 * 256 + TEXTURE_PAGE_SIZE * TEXTURE_PAGE_SIZE * ((page + 2) % 3)

\* The archive: three bitmaps, and the texture definitions 0, 1 and 2 on the
\* pages 2, 1 and 0.
AtlasWad ==
  [EmptyWad EXCEPT
     !.mBitmaps = Vec([k \in 1..3 |-> [offset |-> WordOfNat(AtlasPageOffset(k - 1)),
                                       width |-> TEXTURE_PAGE_SIZE,
                                       height |-> TEXTURE_PAGE_SIZE]],
                      3, [offset |-> W(0, 0), width |-> 0, height |-> 0]),
     !.mTextureDefs = Vec(<<TextureDefOf(2, 0), TextureDefOf(1, 0), TextureDefOf(0, 1)>>,
                          3, GarbageTextureDef(W(0, 0))),
     !.mPackedData = [start |-> 0, avail |-> FileLen(AtlasWadFile),
                      size |-> FileLen(AtlasWadFile)]]

\* A bound of the model: a map has up to this many texture definitions, and
\* its models as many faces.
MaxAtlasDefs == 3

AtlasPageSeqs == UNION {[1..n -> 0..2] : n \in 0..MaxAtlasDefs}

\* The models of a map whose faces name the texture definitions `textures`:
\* "A" has the first face and "B" the others.
AtlasModelsOf(textures) ==
  LET face(t) == [mTexture |-> t, mType |-> "Triangle", mIndices |-> <<0, 0, 0, 0>>]
  IN  IF textures = <<>> THEN <<>>
      ELSE (NameA :> [vertices |-> <<>>, faces |-> <<face(textures[1])>>])
           @@ (NameB :> [vertices |-> <<>>,
                         faces |-> [k \in 1..(Len(textures) - 1) |-> face(textures[k + 1])]])

\* A map with texture definitions on the pages s, whose models name the same
\* pages in the opposite order; a map with a texture definition on a page the
\* archive has no bitmap of; a map with a model face on a texture definition
\* the archive does not have.
AtlasInputs ==
  {[defs |-> s,
    models |-> AtlasModelsOf([k \in 1..Len(s) |-> W(0, 2 - s[Len(s) + 1 - k])])] :
     s \in AtlasPageSeqs}
  \cup {[defs |-> <<1, 3>>, models |-> <<>>],
        [defs |-> <<1>>, models |-> AtlasModelsOf(<<W(0, 1), W(0, 7)>>)]}

\* The renderer is constructed for one map and then for another one whose
\* texture definitions are on the same pages.
PagesOfInput(input) == {input.defs[k] : k \in 1..Len(input.defs)}

InitAtlas ==
  /\ wadFile = AtlasWadFile
  /\ mapFile = NoFile
  /\ f = Stream(0)
  /\ wad = AtlasWad
  /\ oWad = Some(AtlasWad)
  /\ oMap = None
  /\ caller = "none"
  /\ app = NoApp
  /\ pc = "atlas_pages"
  /\ \E first, second \in AtlasInputs :
       /\ PagesOfInput(first) = PagesOfInput(second)
       /\ loc = AtlasLocals(<<first, second>>)
       /\ map = AtlasMapOf(first)

SpecAtlas == InitAtlas /\ [][buildAtlases]_vars

----------------------------------------------------------------------------
(* Properties of the texture atlases.                                      *)

\* The atlases that were built without a read outside of the archive.
BuiltAtlases == {k \in 1..Len(loc.built) : loc.built[k].faults = {}}

\* The pages the texture definitions or faces of an atlas were on.
PagesFound(b) == {b.found[k] : k \in 1..Len(b.found)}

\* The list is the pages found, each once, in ascending order.
IsSortedUniqueListOf(pages, S) ==
  /\ {pages[i] : i \in 1..Len(pages)} = S
  /\ \A i, j \in 1..Len(pages) : i < j => pages[i] < pages[j]

\* The byte of the page p at (row, col), in the archive.
PageByte(p, row, col) ==
  ByteAt(wadFile, wad.mPackedData.start + Amount(VecAt(wad.mBitmaps, p).offset)
                  + row * TEXTURE_PAGE_SIZE + col)

\* The colour of the palette entry k, in the archive.
PaletteColor(k) ==
  [r |-> ByteAt(wadFile, wad.mPackedData.start + 4 * k),
   g |-> ByteAt(wadFile, wad.mPackedData.start + 4 * k + 1),
   b |-> ByteAt(wadFile, wad.mPackedData.start + 4 * k + 2),
   a |-> IF k = 0 THEN 0 ELSE 255]

\* C17: the pages used are the pages found, sorted and each once; the image
\* is as wide as 256 times their number and 256 high; the entry of the table
\* for the i-th of them (from 0) is i over their number, and the pixels of
\* that page are in the columns i * 256 to i * 256 + 255 of the image.
C17_OffsetIsSlot ==
  \A k \in BuiltAtlases :
    LET b == loc.built[k]
        n == Len(b.pagesUsed)
    IN  /\ IsSortedUniqueListOf(b.pagesUsed, PagesFound(b))
        /\ b.image.width = TEXTURE_PAGE_SIZE * n
        /\ b.image.height = TEXTURE_PAGE_SIZE
        /\ b.image.size = b.image.width * b.image.height
        /\ b.atlas.mWidth = b.image.width
        /\ b.atlas.mUvOffsets.size = (IF n = 0 THEN 0 ELSE b.pagesUsed[n] + 1)
        /\ \A i \in 0..(n - 1) :
             LET p == b.pagesUsed[i + 1]
             IN  /\ UvOffsetAt(b.atlas, p, W(0, 0)) = <<i, n>>
                 /\ \A s \in SamplePoints :
                      b.image.pixels[s[1] * b.image.width + i * TEXTURE_PAGE_SIZE + s[2]]
                        = PaletteColor(PageByte(p, s[1], s[2]))

\* C17 witness: the pages 2 and 0 were found, in this order; the page 2 has
\* the offset 1 / 2 and its pixels, which start with the byte 20 and end with
\* the byte 24, are in the columns from 256 on; those of the page 0, which
\* start with the byte 0, are in the columns before.
C17_Witness ==
  \E k \in BuiltAtlases :
    LET b == loc.built[k]
    IN  /\ b.found = <<2, 0>>
        /\ b.pagesUsed = <<0, 2>>
        /\ UvOffsetAt(b.atlas, 2, W(0, 0)) = <<1, 2>>
        /\ UvOffsetAt(b.atlas, 0, W(0, 0)) = <<0, 2>>
        /\ b.image.width = 512
        /\ b.image.pixels[0] = [r |-> 0, g |-> 255, b |-> 0, a |-> 0]
        /\ b.image.pixels[256] = [r |-> 20, g |-> 235, b |-> 10, a |-> 255]
        /\ b.image.pixels[255 * 512 + 511] = [r |-> 24, g |-> 231, b |-> 12, a |-> 255]

\* C18: two atlases built from the same archive for the same set of pages
\* have the same pixels and the same table of offsets, whatever the order and
\* the number of times the pages were found in.
C18_AtlasDeterminism ==
  \A j, k \in BuiltAtlases :
    PagesFound(loc.built[j]) = PagesFound(loc.built[k]) =>
      /\ loc.built[j].image = loc.built[k].image
      /\ loc.built[j].atlas = loc.built[k].atlas
      /\ loc.built[j].pagesUsed = loc.built[k].pagesUsed

\* C18 witness: the pages 0 and 2 were found as 2, 0, 2 for one atlas and as
\* 0, 2 for another one, and the two atlases are the same.
C18_Witness ==
  \E j, k \in BuiltAtlases :
    /\ loc.built[j].found = <<2, 0, 2>>
    /\ loc.built[k].found = <<0, 2>>
    /\ loc.built[j].image = loc.built[k].image
    /\ loc.built[j].atlas.mUvOffsets = loc.built[k].atlas.mUvOffsets
    /\ DOMAIN loc.built[j].image.pixels # {}

----------------------------------------------------------------------------
(* The corners of the terrain quads.                                       *)

\* The vertical offset of the cell (x, y) of the grid.
OffsetOfCell(x, y) == TerrainCell(map, x + y * MAP_SIZE).verticalOffset

\* The terrain loop has drawn the cell c and no other one.
OnlyCellDrawn(c) ==
  /\ AfterTerrainLoop
  /\ CellsInRange
  /\ FloorTexture(ZeroTile.blockDefIndex) = 0
  /\ CellsWithFloor = {c}
  /\ Len(loc.terrainBuffer.mVertexBuffer) = 4

\* C21: the quad of a terrain cell (x, y) has, top-left, the vertical offset
\* of the cell, top-right that of (x + 1, y), bottom-right that of
\* (x + 1, y + 1) and bottom-left that of (x, y + 1), and the offset of the
\* cell itself where x = 63 or y = 63 leaves no such neighbour; terrainAt is
\* called with coordinates in 0..63 only.
C21_CornerHeights ==
  /\ \A c \in CellsWithFloor :
       OnlyCellDrawn(c) =>
         LET x   == c % MAP_SIZE
             y   == c \div MAP_SIZE
             own == OffsetOfCell(x, y)
             v   == loc.terrainBuffer.mVertexBuffer
         IN  /\ v[1].y = 0 - own
             /\ v[2].y = 0 - (IF x = 63 THEN own ELSE OffsetOfCell(x + 1, y))
             /\ v[3].y = 0 - (IF x = 63 \/ y = 63 THEN own ELSE OffsetOfCell(x + 1, y + 1))
             /\ v[4].y = 0 - (IF y = 63 THEN own ELSE OffsetOfCell(x, y + 1))
  /\ pc \in {"mesh_items", "mesh_done"} =>
       \A at \in loc.terrainAtCalls : at[1] \in 0..63 /\ at[2] \in 0..63

\* C21 witness: the cell (63, 0) with the offset 512 is drawn; the cell after
\* it in the grid, (0, 1), has the offset 100 and the cell below the offset
\* 200, and the corners are at 512, 512, 512 and, bottom-left, 200.
C21_Witness ==
  /\ OnlyCellDrawn(63)
  /\ OffsetOfCell(0, 1) = 100
  /\ loc.terrainBuffer.mVertexBuffer[1].y = 0 - 512
  /\ loc.terrainBuffer.mVertexBuffer[2].y = 0 - 512
  /\ loc.terrainBuffer.mVertexBuffer[3].y = 0 - 512
  /\ loc.terrainBuffer.mVertexBuffer[4].y = 0 - 200
  /\ loc.terrainAtCalls = {<<63, 0>>, <<63, 1>>}

\* C21 witness inside the grid: the four corners of the cell (32, 32) have
\* the offsets of the four cells.
C21_WitnessInside ==
  /\ OnlyCellDrawn(32 + 32 * MAP_SIZE)
  /\ loc.terrainBuffer.mVertexBuffer[1].y = 0 - 256
  /\ loc.terrainBuffer.mVertexBuffer[2].y = 0 - 100
  /\ loc.terrainBuffer.mVertexBuffer[3].y = 0 - 300
  /\ loc.terrainBuffer.mVertexBuffer[4].y = 0 - 200

----------------------------------------------------------------------------
(* The texture coordinates of the terrain quads.                           *)

\* The bits 4 and 5 of a flags byte.
RotationBits(flags) == (flags \div 16) % 4

\* The texture coordinates of the four UV corners of a texture definition of
\* the map, in the atlas of the world.
WorldUvs(texture) == getTexCoords(texture, loc.worldTextures, map.mTextureDefs, W(0, 0))

\* The corner k of the quad has the UV corner (k + ((4 - rotation) mod 4)) mod 4.
CornersRotated(quad, texture, rotation) ==
  \A k \in 0..3 :
    /\ (k + ((4 - rotation) % 4)) % 4 \in 0..3
    /\ quad[k + 1].uv = WorldUvs(texture)[((k + ((4 - rotation) % 4)) % 4) + 1]

\* The map is one extra terrain tile with a floor, and its quad was built.
OnlyExtraTerrainDrawn ==
  /\ pc = "mesh_done"
  /\ loc.faults = {}
  /\ Len(map.mItems) = 1
  /\ map.mItems[1].kind = "ExtraTerrainTile"
  /\ Len(loc.terrainBuffer.mVertexBuffer) = 4

\* C22: the corner k of the quad of a terrain cell or of an extra terrain
\* tile, in the order top-left, top-right, bottom-right, bottom-left, has the
\* UV corner (k + ((4 - rotation) mod 4)) mod 4 of the texture definition of
\* its floor, rotation being the bits 4 and 5 of the flags.
C22_UvRotation ==
  /\ \A c \in CellsWithFloor :
       (OnlyCellDrawn(c) /\ loc.faults = {}) =>
         CornersRotated(loc.terrainBuffer.mVertexBuffer,
                        FloorTexture(map.mpTerrain[c].blockDefIndex),
                        RotationBits(map.mpTerrain[c].flags))
  /\ OnlyExtraTerrainDrawn =>
       CornersRotated(loc.terrainBuffer.mVertexBuffer,
                      FloorTexture(map.mItems[1].blockDefIndex),
                      RotationBits(map.mItems[1].flags))

\* C22 witness: a cell with the rotation 1 has, top-left, the UV corner 3 of
\* its texture definition, which is (0, 63), and top-right the UV corner 0.
C22_Witness ==
  /\ OnlyCellDrawn(0)
  /\ loc.faults = {}
  /\ RotationBits(map.mpTerrain[0].flags) = 1
  /\ VecAt(map.mTextureDefs, FloorTexture(map.mpTerrain[0].blockDefIndex)).uvs[4]
       = [u |-> 0, v |-> 63]
  /\ loc.terrainBuffer.mVertexBuffer[1].uv.v = [num |-> 127, den |-> 512]
  /\ loc.terrainBuffer.mVertexBuffer[2].uv.v = [num |-> 1, den |-> 512]
  /\ loc.terrainBuffer.mVertexBuffer[1].uv # loc.terrainBuffer.mVertexBuffer[4].uv

\* C22 witness for an extra terrain tile, with the rotation 3: top-left has
\* the UV corner 1.
C22_WitnessExtra ==
  /\ OnlyExtraTerrainDrawn
  /\ RotationBits(map.mItems[1].flags) = 3
  /\ loc.terrainBuffer.mVertexBuffer[1].uv
       = WorldUvs(FloorTexture(map.mItems[1].blockDefIndex))[2]
  /\ loc.terrainBuffer.mVertexBuffer[1].uv
       # WorldUvs(FloorTexture(map.mItems[1].blockDefIndex))[1]

----------------------------------------------------------------------------
(* The corners of the faces of a block instance.                           *)

\* The map is one block instance on a block definition of the map, and its
\* faces were built.
OnlyBlockDrawn ==
  /\ pc = "mesh_done"
  /\ loc.faults = {}
  /\ Len(map.mItems) = 1
  /\ map.mItems[1].kind = "BlockInstance"
  /\ BlockDefInRange(map, map.mItems[1].blockDefIndex)

TheBlock == map.mItems[1]
TheBlockDef == VecAt(map.mBlockDefs, Amount(TheBlock.blockDefIndex))

\* The vertices of the faces of the block instance.
BlockVerticesEmitted ==
  {loc.blocksBuffer.mVertexBuffer[k] : k \in 1..Len(loc.blocksBuffer.mVertexBuffer)}
  \cup {loc.blocksBufferMasked.mVertexBuffer[k] :
          k \in 1..Len(loc.blocksBufferMasked.mVertexBuffer)}

\* The corner i of the cell of the block instance: 0 at (x, y), 1 at
\* (x + 1, y), 2 at (x + 1, y + 1) and 3 at (x, y + 1), as a position.
CornerPosition(i) ==
  [x |-> 256 * (TheBlock.x + (IF i \in {1, 2} THEN 1 ELSE 0) - 32),
   z |-> 256 * (TheBlock.y + (IF i \in {2, 3} THEN 1 ELSE 0) - 32)]

\* The vertical offsets of the bottom corner i and of the top corner i + 4.
BottomOffset(i) ==
  TheBlock.verticalOffset
  + TheBlockDef.vertexCoordinatesY[((i + RotationBits(TheBlock.flags)) % 4) + 1]
  + 4 * TheBlock.vertexOffsetsY[i + 1]

TopOffset(i) ==
  TheBlock.verticalOffset
  + TheBlockDef.vertexCoordinatesY[((i + RotationBits(TheBlock.flags)) % 4) + 4 + 1]
  + 4 * TheBlock.vertexOffsetsY[i + 4 + 1]

\* A face of the bottom or of the top was built.
BottomBuilt ==
  \/ ~FaceSkipped(TheBlockDef.texturesInside.bottom, map)
  \/ ~FaceSkipped(TheBlockDef.texturesOutside.bottom, map)

TopBuilt ==
  \/ ~FaceSkipped(TheBlockDef.texturesInside.top, map)
  \/ ~FaceSkipped(TheBlockDef.texturesOutside.top, map)

\* C23: every vertex of a block instance with the rotation r is, at the
\* corner i of its cell, at the vertical offset
\* base + height[(i + r) mod 4] + 4 * fine[i] of the bottom or
\* base + height[((i + r) mod 4) + 4] + 4 * fine[i + 4] of the top, and the
\* bottom and the top faces have these offsets at their four corners.
C23_BlockCornerHeights ==
  OnlyBlockDrawn =>
    /\ \A v \in BlockVerticesEmitted :
         \E i \in 0..3 :
           /\ v.x = CornerPosition(i).x
           /\ v.z = CornerPosition(i).z
           /\ v.y \in {0 - BottomOffset(i), 0 - TopOffset(i)}
    /\ BottomBuilt =>
         \A i \in 0..3 :
           \E v \in BlockVerticesEmitted :
             /\ v.x = CornerPosition(i).x
             /\ v.z = CornerPosition(i).z
             /\ v.y = 0 - BottomOffset(i)
    /\ TopBuilt =>
         \A i \in 0..3 :
           \E v \in BlockVerticesEmitted :
             /\ v.x = CornerPosition(i).x
             /\ v.z = CornerPosition(i).z
             /\ v.y = 0 - TopOffset(i)

\* C23 witness: a block instance with the rotation 1, the base offset 412,
\* the prototype heights 0, 8, 16, 24 below and the fine offsets 1, 2, 3, 4:
\* the bottom corner 0 is at 412 + 8 + 4 and the bottom corner 3 at
\* 412 + 0 + 16.
C23_Witness ==
  /\ OnlyBlockDrawn
  /\ TheBlock = MeshBlock(2, 1)
  /\ BottomBuilt
  /\ TopBuilt
  /\ BottomOffset(0) = 424
  /\ BottomOffset(3) = 428
  /\ TopOffset(0) = 412 - 248 - 4
  /\ \E v \in BlockVerticesEmitted :
       v.x = CornerPosition(0).x /\ v.z = CornerPosition(0).z /\ v.y = 0 - 424
  /\ \E v \in BlockVerticesEmitted :
       v.x = CornerPosition(3).x /\ v.z = CornerPosition(3).z /\ v.y = 0 - 428

----------------------------------------------------------------------------
(* The textures of the sides of a block instance.                          *)

\* The vertex i of the block instance (0 to 3 below, 4 to 7 above) with the
\* UV corner j of a texture definition.
BlockVertexAt(i, texture, j) ==
  [x  |-> CornerPosition(i % 4).x,
   y  |-> 0 - (IF i < 4 THEN BottomOffset(i) ELSE TopOffset(i - 4)),
   z  |-> CornerPosition(i % 4).z,
   uv |-> WorldUvs(texture)[j + 1]]

\* The quad of a side face over the vertices vi with a texture.
SideQuad(vi, texture) == [j \in 1..4 |-> BlockVertexAt(vi[j], texture, j - 1)]

\* The vertices of the four outside and of the four inside side faces.
OutsideSideVertices == <<<<4, 7, 3, 0>>, <<7, 6, 2, 3>>, <<6, 5, 1, 2>>, <<5, 4, 0, 1>>>>
InsideSideVertices == <<<<7, 4, 0, 3>>, <<6, 7, 3, 2>>, <<5, 6, 2, 1>>, <<4, 5, 1, 0>>>>

\* The table left, front, right, back of a set of textures.
SideTable(textures) == <<textures.left, textures.front, textures.right, textures.back>>

\* The quads that were added to the two buffers of the blocks.
QuadsIn(buffer) == {buffer.calls[k] : k \in 1..Len(buffer.calls)}

\* The face over the vertices vi has the texture: it is skipped, or its quad
\* with this texture is in the buffer the texture definition belongs in.
FaceHasTexture(vi, texture) ==
  IF FaceSkipped(texture, map)
  THEN \A q \in QuadsIn(loc.blocksBuffer) \cup QuadsIn(loc.blocksBufferMasked) :
         \E j \in 1..4 : <<q[j].x, q[j].y, q[j].z>>
                           # <<SideQuad(vi, 0)[j].x, SideQuad(vi, 0)[j].y, SideQuad(vi, 0)[j].z>>
  ELSE IF VecAt(map.mTextureDefs, texture).isMasked
  THEN SideQuad(vi, texture) \in QuadsIn(loc.blocksBufferMasked)
  ELSE SideQuad(vi, texture) \in QuadsIn(loc.blocksBuffer)

\* C24: the side k of a block instance with the rotation r has, outside, the
\* texture at the position (k + 4 - r) mod 4 of the table left, front, right,
\* back of the outside textures, and inside the texture at the same position
\* of the table of the inside textures; the positions of the four sides are
\* the four positions of the table.
C24_SidePermutation ==
  OnlyBlockDrawn =>
    LET r == RotationBits(TheBlock.flags)
    IN  /\ \A k \in 0..3 :
             /\ FaceHasTexture(OutsideSideVertices[k + 1],
                               SideTable(TheBlockDef.texturesOutside)[((k + 4 - r) % 4) + 1])
             /\ FaceHasTexture(InsideSideVertices[k + 1],
                               SideTable(TheBlockDef.texturesInside)[((k + 4 - r) % 4) + 1])
        /\ {(k + 4 - r) % 4 : k \in 0..3} = 0..3

\* C24 witness: a block instance with the rotation 1 whose eight side
\* textures differ: the outside side 0 has the outside texture of the back,
\* 6, and the inside side 1 the inside texture of the left, 7.
C24_Witness ==
  /\ OnlyBlockDrawn
  /\ TheBlock = MeshBlock(4, 1)
  /\ SideTable(TheBlockDef.texturesOutside) = <<3, 4, 5, 6>>
  /\ SideTable(TheBlockDef.texturesInside) = <<7, 8, 1, 2>>
  /\ SideQuad(OutsideSideVertices[1], 6) \in QuadsIn(loc.blocksBufferMasked)
  /\ SideQuad(InsideSideVertices[2], 7) \in QuadsIn(loc.blocksBufferMasked)
  /\ SideQuad(OutsideSideVertices[2], 3) \in QuadsIn(loc.blocksBuffer)
  /\ Len(loc.blocksBuffer.calls) + Len(loc.blocksBufferMasked.calls) = 8

----------------------------------------------------------------------------
(* The buffers the faces of a block instance go to.                        *)

\* The textures of the 12 faces of a block definition.
TwelveTextures(blockDef) ==
  <<blockDef.texturesOutside.top, blockDef.texturesInside.top,
    blockDef.texturesOutside.bottom, blockDef.texturesInside.bottom>>
  \o SideTable(blockDef.texturesOutside) \o SideTable(blockDef.texturesInside)

\* The texture is the index of a texture definition of the map, and not 0.
IsFaceTexture(texture) == texture # 0 /\ texture < map.mTextureDefs.size

\* The faces of the block definition with a texture definition that is
\* masked, or is not.
FacesRouted(blockDef, masked) ==
  Cardinality({k \in 1..12 :
                 /\ IsFaceTexture(TwelveTextures(blockDef)[k])
                 /\ VecAt(map.mTextureDefs, TwelveTextures(blockDef)[k]).isMasked = masked})

QuadsAdded(before, after) == (Len(after.mVertexBuffer) - Len(before.mVertexBuffer)) \div 4

\* C25: the step over a block instance adds one quad to the masked buffer for
\* every face whose texture is a texture definition of the map, other than
\* 0, that is masked, one quad to the solid buffer for every such face that
\* is not masked, and nothing else; it reads no texture definition outside of
\* the table.
C25_FacesRouted ==
  [][BlockNext =>
       /\ QuadsAdded(loc.blocksBuffer, loc'.blocksBuffer)
            = FacesRouted(BlockDefNext, FALSE)
       /\ QuadsAdded(loc.blocksBufferMasked, loc'.blocksBufferMasked)
            = FacesRouted(BlockDefNext, TRUE)
       /\ SubSeq(loc'.blocksBuffer.mVertexBuffer, 1, Len(loc.blocksBuffer.mVertexBuffer))
            = loc.blocksBuffer.mVertexBuffer
       /\ SubSeq(loc'.blocksBufferMasked.mVertexBuffer, 1,
                 Len(loc.blocksBufferMasked.mVertexBuffer))
            = loc.blocksBufferMasked.mVertexBuffer
       /\ loc'.faults = loc.faults]_vars

\* C25 witness: a block instance with faces of the textures 0 and 9, which
\* are skipped, of the texture 1, which is not masked, and of the masked
\* texture 2 was built into 4 solid and 4 masked quads.
C25_Witness ==
  /\ OnlyBlockDrawn
  /\ TheBlock = MeshBlock(2, 3)
  /\ {TwelveTextures(TheBlockDef)[k] : k \in 1..12} = {0, 1, 2, 9}
  /\ ~IsFaceTexture(9)
  /\ FacesRouted(TheBlockDef, FALSE) = 4
  /\ FacesRouted(TheBlockDef, TRUE) = 4
  /\ Len(loc.blocksBuffer.calls) = 4
  /\ Len(loc.blocksBufferMasked.calls) = 4

----------------------------------------------------------------------------
(* The reads of the packed data of the archive.                            *)

\* C26: the construction of a scene reads the packed data of the archive,
\* for the palette, the background colour, the bitmaps of the pages and the
\* models, inside of it only.
C26_BlobReadsInRange ==
  /\ HasFaults => "blob" \notin loc.faults
  /\ app.mpMapRenderer # None => "blob" \notin app.mpMapRenderer.value.faults

----------------------------------------------------------------------------
(* The item loop over a file of more tag-0x4 records than the grid has     *)
(* cells.                                                                  *)

\* A bound of the model: the records of the file that is made of tag-0x4
\* records alone.
MaxTerrainRecords == 4097

\* A map file of n equal tag-0x4 records that declares as many items.
TerrainRunMap(n) ==
  <<Run(MapHeaderBytes(SUCK, W(0, 40), 0, 0, 0, n, 0)
          \o MinusOne \o MinusOne \o ModelNameList, 1),
    Run(ItemKinds["T"], n)>>

\* The stream is at a record of the run of equal records the file ends with.
TerrainRunNext ==
  /\ Len(mapFile) = 2
  /\ Len(mapFile[2].unit) = 32
  /\ Good(f)
  /\ f.pos >= RunLen(mapFile[1])
  /\ f.pos < FileLen(mapFile)
  /\ (f.pos - RunLen(mapFile[1])) % 32 = 0

\* The rounds of the item loop over the records of the run that are left,
\* taken together: every round is case 0x4,
\*   (*map.mpTerrain)[numTerrainTilesRead] = tile; ++numTerrainTilesRead;
\* and the rounds that write after the last cell of the grid write outside
\* of it: the process may die of it, or go on with the grid as it is.
mapItemTerrainRun ==
  /\ InItemLoop
  /\ TerrainRunNext
  /\ LET h == ItemHeader(W(0, 0))
         b == RunOps(mapFile, h.s, TerrainOps, W(0, 0))
         tile == [blockDefIndex  |-> U32OfBytes(Slice(b.bytes, 0, 4)),
                  flags          |-> b.bytes[5],
                  verticalOffset |-> S16OfBytes(Slice(b.bytes, 5, 2))]
         n == Min((FileLen(mapFile) - f.pos) \div 32,
                  Amount(loc.numMapItems) - loc.i)
         first == loc.numTerrainTilesRead
         inGrid == {k \in first..(first + n - 1) : k < MAP_SIZE * MAP_SIZE}
     IN  /\ h.type = 4
         /\ f' = [f EXCEPT !.pos = @ + 32 * n]
         /\ loc' = [loc EXCEPT !.i = @ + n,
                               !.types = @ \o [k \in 1..n |-> 4],
                               !.numTerrainTilesRead = @ + n]
         /\ map' = [map EXCEPT !.mpTerrain = [k \in inGrid |-> tile] @@ @]
         /\ IF first + n <= MAP_SIZE * MAP_SIZE
            THEN pc' = pc
            ELSE pc' \in {pc, "crashed"}
  /\ UNCHANGED <<wadFile, mapFile, wad, oWad, oMap, caller, app>>

InitTerrain ==
  /\ wadFile = NoFile
  /\ mapFile \in MapInputs \cup {TerrainRunMap(MaxTerrainRecords)}
  /\ f = Stream(0)
  /\ pc = "map_open"
  /\ loc = NoLocals
  /\ wad = TestWad
  /\ map = EmptyMap
  /\ oWad = Some(TestWad)
  /\ oMap = None
  /\ caller = "none"
  /\ app = NoApp

SpecTerrain == InitTerrain /\ [][loadMapfile \/ mapItemTerrainRun]_vars

\* C27: at every step of the item loop, the tag-0x4 records that are decoded
\* are stored at terrain indices below MAP_SIZE * MAP_SIZE, the number of
\* the cells of the grid: the indices of a step are the values of
\* numTerrainTilesRead from the one before the step up to the one after it.
C27_TerrainIndexInGrid ==
  [][(pc = "map_items" /\ loc'.numTerrainTilesRead > loc.numTerrainTilesRead)
       => loc'.numTerrainTilesRead <= MAP_SIZE * MAP_SIZE]_vars

----------------------------------------------------------------------------
(* The item list against the records of the file.                          *)

RECURSIVE OpsBytes(_)
OpsBytes(ops) == IF ops = <<>> THEN 0 ELSE Head(ops).n + OpsBytes(Tail(ops))

\* The bytes of a record of the given type: x, y, typeFlags and the body.
RecordBytes(type) ==
  12 + (CASE type = 4    -> OpsBytes(TerrainOps)
          [] type = 8    -> OpsBytes(ExtraTerrainOps)
          [] type = 64   -> OpsBytes(BlockOps)
          [] type = 4096 -> OpsBytes(ModelOps)
          [] OTHER       -> SkippedBytes(type))

RECURSIVE RecordsBytes(_)
RecordsBytes(types) ==
  IF types = <<>> THEN 0
  ELSE RecordBytes(Head(types)) + RecordsBytes(Tail(types))

\* What the claim keeps of an item: its kind, its place, and the name of
\* its model.
EntryOf(item) ==
  [kind |-> item.kind, x |-> item.x, y |-> item.y,
   name |-> IF item.kind = "ModelInstance" THEN item.modelName ELSE <<>>]

\* The entries of the records of the given types that lie one after the
\* other from offset p of the map file, read from the bytes of the file.
RECURSIVE EntriesFrom(_, _)
EntriesFrom(p, types) ==
  IF types = <<>> THEN <<>>
  ELSE LET t == Head(types)
           b == FileBytes(mapFile, p, RecordBytes(t))
           x == b[1] + 256 * b[2]
           y == b[5] + 256 * b[6]
           index == b[23] + 256 * b[24] + 65536 * (b[25] + 256 * b[26])
           name == loc.modelNameTable[index + 1]
           entry ==
             IF t = 8 THEN <<[kind |-> "ExtraTerrainTile", x |-> x, y |-> y,
                              name |-> <<>>]>>
             ELSE IF t = 64 THEN <<[kind |-> "BlockInstance", x |-> x, y |-> y,
                                    name |-> <<>>]>>
             ELSE IF t = 4096 /\ name \in DOMAIN wad.mModels
               THEN <<[kind |-> "ModelInstance", x |-> x, y |-> y,
                       name |-> name]>>
             ELSE <<>>
       IN  entry \o EntriesFrom(p + RecordBytes(t), Tail(types))

\* C28: while the item loop runs and after a successful loadMapfile, the
\* item list holds one entry for every decoded record of tag 0x8 and 0x40 and
\* for every record of tag 0x1000 whose model name the archive has, in the
\* order of the records in the file, and nothing else: the records of the
\* other tags add no entry, no entry is a Billboard, and the list is not
\* longer than the declared number of map items.
C28_ItemsAreTheRecords ==
  (pc = "map_items" \/ (pc = "returned" /\ oMap = Some(map))) =>
    /\ Len(map.mItems) <= Len(loc.types)
    /\ NatLtU32(Len(loc.types) - 1, loc.numMapItems) \/ loc.types = <<>>
    /\ \A k \in 1..Len(map.mItems) :
         map.mItems[k].kind \in {"ExtraTerrainTile", "BlockInstance", "ModelInstance"}
    /\ Good(f) =>
         [k \in 1..Len(map.mItems) |-> EntryOf(map.mItems[k])]
           = EntriesFrom(f.pos - RecordsBytes(loc.types), loc.types)

\* C28 witness: a file of a model record with a model of the archive and an
\* extra terrain record was decoded: the list is the model at (10, 11) and
\* the extra terrain tile at (3, 4).
C28_Witness ==
  /\ pc = "returned"
  /\ oMap = Some(map)
  /\ mapFile = Bytes(PlainMap(<<"M0", "E">>))
  /\ loc.types = <<4096, 8>>
  /\ [k \in 1..Len(map.mItems) |-> EntryOf(map.mItems[k])]
       = <<[kind |-> "ModelInstance", x |-> 10, y |-> 11, name |-> NameA],
           [kind |-> "ExtraTerrainTile", x |-> 3, y |-> 4, name |-> <<>>]>>

\* A file of a skipped record and a terrain record was decoded with an
\* empty list.
C28_WitnessNoEntry ==
  /\ pc = "returned"
  /\ oMap = Some(map)
  /\ loc.types = <<16, 4>>
  /\ Good(f)
  /\ map.mItems = <<>>

----------------------------------------------------------------------------
(* MeshBufferData as a data type: calls of addQuad, addTriangle, append    *)
(* and createMesh on a buffer (mesh.hpp).                                  *)

\* Bounds of the model: the calls that are followed on a buffer, and the
\* numbers of quads of the long buffers the calls start from.  A buffer of
\* 10922 quads has 65532 indices, one of 16383 quads has 65532 vertices.
MaxCalls == 2
QuadsBelowIndexLimit == 10922
QuadsBelowVertexLimit == 16383

\* The vertices of the calls; what a vertex holds plays no part.
BufferVertices == {0, 1}

\* The buffer after n calls of addQuad on an empty buffer, all with the
\* vertex v: the i-th call finds 4 * (i - 1) vertices in the buffer.
AfterQuads(n, v) ==
  [mVertexBuffer |-> [k \in 1..(4 * n) |-> v],
   mIndexBuffer  |-> [k \in 1..(6 * n) |->
                        (QuadIndices[((k - 1) % 6) + 1] + 4 * ((k - 1) \div 6))
                          % 65536],
   calls         |-> [k \in 1..n |-> <<v, v, v, v>>]]

\* The calls on a buffer.  A long buffer is kept as the calls that made it:
\* `quads` calls of addQuad on an empty buffer, and then `calls`.
BufferLocals(quads, other) ==
  [quads    |-> quads,
   calls    |-> <<>>,
   other    |-> other,      \* the buffer that is appended
   created  |-> FALSE]      \* createMesh was called

RECURSIVE CallsApplied(_, _, _)
CallsApplied(buffer, calls, other) ==
  IF calls = <<>> THEN buffer
  ELSE LET c == Head(calls)
           next == IF c.op = "addQuad"
                     THEN addQuad(buffer, c.v[1], c.v[2], c.v[3], c.v[4])
                   ELSE IF c.op = "addTriangle"
                     THEN addTriangle(buffer, c.v[1], c.v[2], c.v[3])
                   ELSE append(buffer, other)
       IN  CallsApplied(next, Tail(calls), other)

\* The buffer of the calls made so far.
BufferOf(l) == CallsApplied(AfterQuads(l.quads, 0), l.calls, l.other)

InBufferCalls == pc = "buffer" /\ Len(loc.calls) < MaxCalls

bufferAddQuad ==
  /\ InBufferCalls
  /\ \E v0, v2 \in BufferVertices :
       loc' = [loc EXCEPT !.calls =
                 Append(@, [op |-> "addQuad", v |-> <<v0, 0, v2, 1>>])]
  /\ UNCHANGED <<wadFile, mapFile, f, wad, map, oWad, oMap, caller, app, pc>>

bufferAddTriangle ==
  /\ InBufferCalls
  /\ \E v0 \in BufferVertices :
       loc' = [loc EXCEPT !.calls =
                 Append(@, [op |-> "addTriangle", v |-> <<v0, 0, 1>>])]
  /\ UNCHANGED <<wadFile, mapFile, f, wad, map, oWad, oMap, caller, app, pc>>

bufferAppend ==
  /\ InBufferCalls
  /\ loc' = [loc EXCEPT !.calls = Append(@, [op |-> "append", v |-> <<>>])]
  /\ UNCHANGED <<wadFile, mapFile, f, wad, map, oWad, oMap, caller, app, pc>>

bufferCreateMesh ==
  /\ pc = "buffer"
  /\ loc' = [loc EXCEPT !.created = TRUE]
  /\ pc' = "buffer_done"
  /\ UNCHANGED <<wadFile, mapFile, f, wad, map, oWad, oMap, caller, app>>

bufferCalls ==
  \/ bufferAddQuad \/ bufferAddTriangle \/ bufferAppend \/ bufferCreateMesh

\* The buffers the calls start from: the empty one, one of a quad, and the
\* two long ones; the buffers that are appended have no face, a triangle, or
\* a quad and a triangle.
InitBuffer ==
  /\ wadFile = NoFile
  /\ mapFile = NoFile
  /\ f = Stream(0)
  /\ wad = EmptyWad
  /\ map = EmptyMap
  /\ oWad = None
  /\ oMap = None
  /\ caller = "none"
  /\ app = NoApp
  /\ pc = "buffer"
  /\ \E n \in {0, 1, QuadsBelowIndexLimit, QuadsBelowVertexLimit},
        other \in {EmptyBuffer, addTriangle(EmptyBuffer, 1, 1, 0),
                   addTriangle(AfterQuads(1, 1), 0, 0, 1)} :
       loc = BufferLocals(n, other)

SpecBuffer == InitBuffer /\ [][bufferCalls]_vars

\* C29: a call of addQuad or addTriangle leaves the indices of the buffer as
\* they are and adds indices of the vertices it has added, and of no other;
\* a call of append adds the indices of the other buffer, each for the
\* vertex it was for there, now behind the vertices of this buffer; every
\* index added is smaller than the number of vertices; and the index count
\* of the mesh createMesh makes is the length of the index buffer.
C29_IndicesOfTheFace ==
  [][pc = "buffer" =>
       LET old == BufferOf(loc)
           new == BufferOf(loc')
           nv  == Len(old.mVertexBuffer)
           ni  == Len(old.mIndexBuffer)
           nvNew == Len(new.mVertexBuffer)
           newIndices == new.mIndexBuffer
           added == (ni + 1)..Len(newIndices)
           last == loc'.calls[Len(loc'.calls)].op
       IN  IF loc'.created
           THEN createMesh(old).mNumIndices = ni
           ELSE /\ SubSeq(newIndices, 1, ni) = old.mIndexBuffer
                /\ \A k \in added : newIndices[k] < nvNew
                /\ last \in {"addQuad", "addTriangle"} =>
                     \A k \in added : newIndices[k] >= nv
                /\ last = "append" =>
                     /\ Len(newIndices) = ni + Len(loc.other.mIndexBuffer)
                     /\ \A k \in 1..Len(loc.other.mIndexBuffer) :
                          newIndices[ni + k] = nv + loc.other.mIndexBuffer[k]]_vars

----------------------------------------------------------------------------
(* MapRenderer::updateAndRender: the draws of the meshes of the blocks and *)
(* of the models (map_renderer.cpp).                                       *)

\* Mesh::draw: glDrawElements of mNumIndices indices from the start of the
\* index buffer.  A draw is kept with the value the uniform alphaTesting of
\* the shader has when it is made.
Mesh_draw(mesh, alphaTesting) ==
  <<[start |-> 0, count |-> mesh.mNumIndices, alphaTesting |-> alphaTesting]>>

\* Mesh::drawSubRange(start, count)
Mesh_drawSubRange(mesh, start, count, alphaTesting) ==
  <<[start |-> start, count |-> count, alphaTesting |-> alphaTesting]>>

\* MaskedMesh::draw: the draws it makes, and the uniform as it leaves it.
\*   if (mMaskedFacesStart) { drawSubRange(0, mMaskedFacesStart);
\*     setUniform("alphaTesting", true);
\*     drawSubRange(mMaskedFacesStart, mMaskedFacesCount);
\*     setUniform("alphaTesting", false); }
\*   else { mMesh.draw(); }
MaskedMesh_draw(mesh, alphaTesting) ==
  IF mesh.mMaskedFacesStart # 0
  THEN [draws |-> Mesh_drawSubRange(mesh.mMesh, 0, mesh.mMaskedFacesStart,
                                    alphaTesting)
                  \o Mesh_drawSubRange(mesh.mMesh, mesh.mMaskedFacesStart,
                                       mesh.mMaskedFacesCount, TRUE),
        alphaTesting |-> FALSE]
  ELSE [draws |-> Mesh_draw(mesh.mMesh, alphaTesting),
        alphaTesting |-> alphaTesting]

\* updateAndRender, after the constructor has set alphaTesting of mShader to
\* false, with mShowGeometry and mShowModels as they are constructed:
\* mBlocksMesh.draw(mShader), then mModelsMesh.draw(mShader).  The buffers
\* the meshes were made of are kept as history.
updateAndRender ==
  /\ pc = "mesh_done"
  /\ LET meshes == loc.meshes.value
         blocks == MaskedMesh_draw(meshes.mBlocksMesh, FALSE)
         models == MaskedMesh_draw(meshes.mModelsMesh, blocks.alphaTesting)
     IN  loc' = [meshes       |-> loc.meshes,
                 solidFaces   |-> [blocks |-> loc.blocksBuffer,
                                   models |-> loc.modelsBuffer],
                 maskedFaces  |-> [blocks |-> loc.blocksBufferMasked,
                                   models |-> loc.modelsBufferMasked],
                 draws        |-> [blocks |-> blocks.draws,
                                   models |-> models.draws],
                 alphaTesting |-> models.alphaTesting,
                 exit         |-> "rendered"]
  /\ pc' = "rendered"
  /\ UNCHANGED <<wadFile, mapFile, f, wad, map, oWad, oMap, caller, app>>

SpecRender == InitMesh /\ [][buildMeshes \/ updateAndRender]_vars

\* The places of the index buffer the draws made with the given value of
\* alphaTesting cover, counted from 0.
PlacesDrawn(draws, alphaTesting) ==
  UNION {draws[k].start..(draws[k].start + draws[k].count - 1) :
           k \in {j \in 1..Len(draws) : draws[j].alphaTesting = alphaTesting}}

\* The draws of a mesh made of the two buffers: the places of the indices of
\* the masked faces, which lie behind those of the solid faces, are drawn
\* with alpha testing and no other place is, and the places of the solid
\* faces are drawn without.
DrawnByMask(draws, solidFaces, maskedFaces) ==
  LET solid  == Len(solidFaces.mIndexBuffer)
      masked == Len(maskedFaces.mIndexBuffer)
  IN  /\ PlacesDrawn(draws, TRUE) = solid..(solid + masked - 1)
      /\ PlacesDrawn(draws, FALSE) = 0..(solid - 1)

\* C30: when the mesh of the blocks or of the models was made with a masked
\* buffer that has data, its draw draws the masked faces and only them with
\* alpha testing, and the solid faces without, whatever the numbers of the
\* faces are; and alpha testing is off after the draws.
C30_MaskedFacesAlphaTested ==
  pc = "rendered" =>
    /\ \A m \in {"blocks", "models"} :
         hasData(loc.maskedFaces[m]) =>
           DrawnByMask(loc.draws[m], loc.solidFaces[m], loc.maskedFaces[m])
    /\ ~loc.alphaTesting

====
